---------------------------- MODULE Spec2Model ----------------------------
(***************************************************************************)
(* Audio feature extraction and animation state of the Local-Visualizer    *)
(* repository: the logarithmic band mapper (_makeLogBandMap, the same      *)
(* arithmetic as makeLogBandMap of src/app.js and src/unnamed/part_002)    *)
(* and the 2D visualiser AuroraOrbit2DVisualizer                           *)
(* (src/visualizers/aurora2d.js).                                          *)
(*                                                                         *)
(* Numbers.  A JavaScript number is modelled as an exact rational <<n, d>> *)
(* in lowest terms with d > 0, or as NaN == <<0, 0>>.  IEEE-754 rounding   *)
(* is not modelled: every finite result is the exact real result, except   *)
(* Math.sqrt and Math.pow with a fractional exponent, which are rounded    *)
(* down to a stated grid when the exact result is irrational.  NaN         *)
(* propagates as in JavaScript: through + - * /, Math.min, Math.max and    *)
(* Math.sqrt; every comparison with NaN is false; reading a typed array    *)
(* past its end yields undefined, which turns a running sum into NaN.      *)
(***************************************************************************)
EXTENDS Integers, Sequences, FiniteSets, TLC

(***************************************************************************)
(* Bounds of the model (population sizes are scaled down from the          *)
(* program's presets; the order between them is kept).                     *)
(***************************************************************************)
MaxBins == 8

MaxBands == 4

MaxFrames == 2

WaveLen == 4

PowGrid == 10

\* Scaled population sizes of AuroraOrbit2DVisualizer: the presets' bars
\* (48, 48, 40), the constructor's array length (128) and the sparkCounts
\* (110 < 128 < 160 < 180 < 220).
BarsLow == 2

BarsHigh == 3

CtorArrayLen == 4

SparkLow == 3

SparkMedium == 5

SparkDefault == 6

SparkHigh == 7

\* Scaled bar counts of the player page's presets (32, 48, 64).
AppBarsLow == 2

AppBarsMedium == 3

AppBarsHigh == 4

\* Animation-frame requests, tracks and concurrent play() calls considered.
MaxRafIds == 4

MaxTracks == 2

MaxPlays == 2

\* canvas.clientHeight, and the grid of Math.pow(i / bars, 0.7).
CanvasH == 100

AppPowGrid == 2

(***************************************************************************)
(* Integer helpers.                                                        *)
(***************************************************************************)
Abs(a) == IF a < 0 THEN -a ELSE a

Min2(a, b) == IF a < b THEN a ELSE b

Max2(a, b) == IF a > b THEN a ELSE b

RECURSIVE GCD(_, _)
GCD(a, b) == IF b = 0 THEN a ELSE GCD(b, a % b)

\* base^e, saturating at cap + 1 so that no product leaves the integer range.
RECURSIVE PowCap(_, _, _)
PowCap(base, e, cap) ==
  IF e = 0 THEN 1
  ELSE LET r == PowCap(base, e - 1, cap)
       IN IF base = 0 THEN 0
          ELSE IF r > cap \div base THEN cap + 1
          ELSE r * base

\* The largest n >= from with n^k <= q (q >= 0, k >= 1).
RECURSIVE RootFloorFrom(_, _, _)
RootFloorFrom(q, k, from) ==
  IF PowCap(from + 1, k, q) <= q THEN RootFloorFrom(q, k, from + 1) ELSE from

RootFloor(q, k) == RootFloorFrom(q, k, 0)

\* a * b, saturating at cap + 1.
SatMul(a, b, cap) ==
  IF a = 0 \/ b = 0 THEN 0
  ELSE IF a > cap \/ b > cap THEN cap + 1
  ELSE IF a > cap \div b THEN cap + 1
  ELSE a * b

RECURSIVE Pow(_, _)
Pow(base, e) == IF e = 0 THEN 1 ELSE base * Pow(base, e - 1)

\* The largest r in lo..hi with r * r <= q (lo * lo <= q is given).
RECURSIVE ISqrtIn(_, _, _)
ISqrtIn(lo, hi, q) ==
  IF lo >= hi THEN lo
  ELSE LET mid == (lo + hi + 1) \div 2
       IN IF mid <= q \div mid THEN ISqrtIn(mid, hi, q) ELSE ISqrtIn(lo, mid - 1, q)

ISqrt(q) == ISqrtIn(0, q, q)

(***************************************************************************)
(* JavaScript numbers: exact rationals and NaN.                            *)
(***************************************************************************)
NaN == <<0, 0>>

IsNaN(x) == x[2] = 0

Rat(n, d) ==
  LET g == GCD(Abs(n), Abs(d))
  IN IF d < 0 THEN <<(0 - n) \div g, (0 - d) \div g>> ELSE <<n \div g, d \div g>>

Num(n) == <<n, 1>>

Zero == Num(0)

One == Num(1)

RNeg(x) == IF IsNaN(x) THEN NaN ELSE <<0 - x[1], x[2]>>

RAdd(x, y) ==
  IF IsNaN(x) \/ IsNaN(y) THEN NaN
  ELSE LET g == GCD(x[2], y[2])
       IN Rat(x[1] * (y[2] \div g) + y[1] * (x[2] \div g), x[2] * (y[2] \div g))

RSub(x, y) == RAdd(x, RNeg(y))

RMul(x, y) ==
  IF IsNaN(x) \/ IsNaN(y) THEN NaN
  ELSE LET g1 == GCD(Abs(x[1]), y[2])
           g2 == GCD(Abs(y[1]), x[2])
       IN Rat((x[1] \div g1) * (y[1] \div g2), (x[2] \div g2) * (y[2] \div g1))

\* x / n for an integer n >= 0; 0 / 0 is NaN (a non-zero x over 0 would be
\* Infinity, which no modelled expression produces).
RDivInt(x, n) ==
  IF IsNaN(x) \/ n = 0 THEN NaN ELSE RMul(x, Rat(1, n))

\* Comparisons: false as soon as one side is NaN.
RLess(x, y) ==
  /\ ~IsNaN(x)
  /\ ~IsNaN(y)
  /\ LET g == GCD(x[2], y[2]) IN x[1] * (y[2] \div g) < y[1] * (x[2] \div g)

RLeq(x, y) == ~IsNaN(x) /\ ~IsNaN(y) /\ ~RLess(y, x)

\* Math.min and Math.max return NaN when an argument is NaN.
RMin(x, y) == IF IsNaN(x) \/ IsNaN(y) THEN NaN ELSE IF RLess(y, x) THEN y ELSE x

RMax(x, y) == IF IsNaN(x) \/ IsNaN(y) THEN NaN ELSE IF RLess(x, y) THEN y ELSE x

RAbs(x) == IF IsNaN(x) THEN NaN ELSE <<Abs(x[1]), x[2]>>

\* Math.sqrt: exact when numerator and denominator are squares, else rounded
\* down to a multiple of 1 / denominator.
RSqrt(x) ==
  IF IsNaN(x) \/ x[1] < 0 THEN NaN ELSE Rat(ISqrt(x[1] * x[2]), x[2])

\* x % 1.0: the sign of the result is the sign of x.
RMod1(x) ==
  IF IsNaN(x) THEN NaN
  ELSE IF x[1] >= 0 THEN Rat(x[1] % x[2], x[2])
  ELSE Rat(0 - ((0 - x[1]) % x[2]), x[2])

\* Math.pow(p / q, a / b) for 0 <= p / q <= 1, rounded down to a multiple of
\* 1 / grid (exact at 0 and at 1).
PowFloor(p, q, a, b, grid) ==
  Rat(RootFloor((Pow(grid, b) * Pow(p, a)) \div Pow(q, a), b), grid)

\* In [0, 1] and not NaN.
InUnit(x) == RLeq(Zero, x) /\ RLeq(x, One)

(***************************************************************************)
(* Band Mapper: makeLogBandMap(binCount, bandCount, sampleRate).           *)
(*                                                                         *)
(* For band edge i the code computes                                       *)
(*   f = fMin * (fMax / fMin)^(i / bandCount),  x = (f / nyquist) * binCount *)
(* with nyquist = sampleRate / 2 and fMax = min(16000, nyquist), so        *)
(*   x^bandCount = binCount^bandCount * (fMin / nyquist)^(bandCount - i)   *)
(*                                    * (fMax / nyquist)^i                 *)
(* and floor(x), ceil(x) are decided exactly by integer comparisons.  The  *)
(* sample rates used keep every intermediate edge irrational, where the    *)
(* double result and the exact result have the same floor and ceiling.     *)
(***************************************************************************)
FMin == 32

FMaxCap == 16000

\* fMin / nyquist = 2 * fMin / sampleRate, in lowest terms.
LowNum(sampleRate) == (2 * FMin) \div GCD(2 * FMin, sampleRate)

LowDen(sampleRate) == sampleRate \div GCD(2 * FMin, sampleRate)

\* 2 * fMax = min(2 * 16000, sampleRate); fMax / nyquist in lowest terms.
TwiceFMax(sampleRate) == Min2(2 * FMaxCap, sampleRate)

HighNum(sampleRate) ==
  TwiceFMax(sampleRate) \div GCD(TwiceFMax(sampleRate), sampleRate)

HighDen(sampleRate) == sampleRate \div GCD(TwiceFMax(sampleRate), sampleRate)

\* Numerator and (saturated) denominator of x^bandCount for band edge i.
EdgeNum(binCount, bandCount, sampleRate, i) ==
  Pow(binCount, bandCount) * Pow(LowNum(sampleRate), bandCount - i)
                           * Pow(HighNum(sampleRate), i)

EdgeDen(binCount, bandCount, sampleRate, i) ==
  LET cap == EdgeNum(binCount, bandCount, sampleRate, i)
  IN SatMul(PowCap(LowDen(sampleRate), bandCount - i, cap),
            PowCap(HighDen(sampleRate), i, cap), cap)

\* Math.floor((f_i / nyquist) * binCount)
EdgeFloor(binCount, bandCount, sampleRate, i) ==
  RootFloor(EdgeNum(binCount, bandCount, sampleRate, i)
              \div EdgeDen(binCount, bandCount, sampleRate, i), bandCount)

\* Math.ceil((f_i / nyquist) * binCount)
EdgeCeil(binCount, bandCount, sampleRate, i) ==
  LET fl == EdgeFloor(binCount, bandCount, sampleRate, i)
      num == EdgeNum(binCount, bandCount, sampleRate, i)
      den == EdgeDen(binCount, bandCount, sampleRate, i)
  IN IF PowCap(fl, bandCount, num) * den = num THEN fl ELSE fl + 1

\* A mutant of BandEntry: the width clamp is missing.
BandEntryNoClamp(b0, b1) == <<b0, b1>>

\* bands.push([b0, Math.max(b0 + 1, b1)])
BandEntry(b0, b1) == <<b0, Max2(b0 + 1, b1)>>

\* const b0 = Math.max(0, Math.floor((f0 / nyquist) * binCount))
BandStart(binCount, bandCount, sampleRate, i) ==
  Max2(0, EdgeFloor(binCount, bandCount, sampleRate, i))

\* const b1 = Math.min(binCount - 1, Math.ceil((f1 / nyquist) * binCount))
BandLimit(binCount, bandCount, sampleRate, i) ==
  Min2(binCount - 1, EdgeCeil(binCount, bandCount, sampleRate, i + 1))

\* The band map: a sequence of bandCount pairs <<binStart, binEndExclusive>>
\* (band i of the code is element i + 1).
MakeLogBandMap(binCount, bandCount, sampleRate) ==
  [k \in 1..bandCount |->
     BandEntry(BandStart(binCount, bandCount, sampleRate, k - 1),
               BandLimit(binCount, bandCount, sampleRate, k - 1))]

(***************************************************************************)
(* Feature Extractor of AuroraOrbit2DVisualizer (_updateAudioStats).       *)
(* A frequency or waveform frame is a sequence of bytes; index i of the    *)
(* code is element i + 1.                                                  *)
(***************************************************************************)
Null == <<>>

\* freq[b] inside a sum: a read past the end is undefined, and sum += undefined
\* is NaN.
FreqAt(freq, b) == IF b < Len(freq) THEN Num(freq[b + 1]) ELSE NaN

\* for (let b = b0; b < b1; b++) sum += freq[b]
RECURSIVE BandSum(_, _, _)
BandSum(freq, b0, b1) ==
  IF b0 >= b1 THEN Zero ELSE RAdd(FreqAt(freq, b0), BandSum(freq, b0 + 1, b1))

\* hz = i * binHz with binHz = nyquist / freq.length, compared with a limit:
\* i * sampleRate / (2 * len) <= limit.
HzLeq(i, len, sampleRate, limit) == i * sampleRate <= 2 * limit * len

BassMax == 200

MidsMax == 2000

HighsMax == 16000

BassBins(len, sampleRate) ==
  {i \in 0..(len - 1) : HzLeq(i, len, sampleRate, BassMax)}

MidsBins(len, sampleRate) ==
  {i \in 0..(len - 1) : /\ ~HzLeq(i, len, sampleRate, BassMax)
                        /\ HzLeq(i, len, sampleRate, MidsMax)}

HighsBins(len, sampleRate) ==
  {i \in 0..(len - 1) : /\ ~HzLeq(i, len, sampleRate, MidsMax)
                        /\ HzLeq(i, len, sampleRate, HighsMax)}

RECURSIVE ByteSum(_, _)
ByteSum(freq, bins) ==
  IF bins = {} THEN 0
  ELSE LET i == CHOOSE j \in bins : TRUE
       IN freq[i + 1] + ByteSum(freq, bins \ {i})

\* count ? sum / count : 0, the sum being of freq[i] / 255
RangeTarget(freq, bins) ==
  IF Cardinality(bins) = 0 THEN Zero
  ELSE RDivInt(Rat(ByteSum(freq, bins), 255), Cardinality(bins))

RECURSIVE SquareSum(_, _)
SquareSum(wave, n) ==
  IF n = 0 THEN 0
  ELSE (wave[n] - 128) * (wave[n] - 128) + SquareSum(wave, n - 1)

\* rms = Math.sqrt(rms / wave.length), rms being the sum of ((w - 128) / 128)^2
Rms(wave) == RSqrt(RDivInt(Rat(SquareSum(wave, Len(wave)), 128 * 128), Len(wave)))

\* const lerp = (a, b, t) => a + (b - a) * t
Lerp(a, b, t) == RAdd(a, RMul(RSub(b, a), t))

\* const smooth = 0.2
Smooth2D == Rat(1, 5)

\* const energy = Math.min(1, rms)
EnergyTarget2D(wave) == RMin(One, Rms(wave))

\* The instantaneous targets of one frame.
Targets2D(freq, wave, sampleRate) ==
  [energy |-> EnergyTarget2D(wave),
   bass   |-> RangeTarget(freq, BassBins(Len(freq), sampleRate)),
   mids   |-> RangeTarget(freq, MidsBins(Len(freq), sampleRate)),
   highs  |-> RangeTarget(freq, HighsBins(Len(freq), sampleRate))]

Fields == {"energy", "bass", "mids", "highs"}

\* this.audioState.x = lerp(this.audioState.x, target, smooth)
SmoothAudio2D(audioState, targets) ==
  [f \in Fields |-> Lerp(audioState[f], targets[f], Smooth2D)]

\* !this.bandMap || this.bandMap.length !== this.settings.bars
\*   || this.bandMap[0][1] > freq.length
NeedsRebuild2D(bandMap, bars, freqLen) ==
  \/ bandMap = Null
  \/ Len(bandMap) # bars
  \/ bandMap[1][2] > freqLen

\* The band map _updateAudioStats uses for this frame.
BandMapFor2D(bandMap, bars, freqLen, sampleRate) ==
  IF NeedsRebuild2D(bandMap, bars, freqLen)
  THEN MakeLogBandMap(freqLen, bars, sampleRate)
  ELSE bandMap

\* const tilt = Math.pow(i / bars, 0.6) * 0.15
Tilt(i, bars) == RMul(PowFloor(i, bars, 3, 5, PowGrid), Rat(15, 100))

\* this.barValues[i] = Math.min(1, Math.max(0, avg / 255 * (1 - tilt)))
\* with avg = sum / (b1 - b0)
BarValue(freq, band, i, bars) ==
  LET avg == RDivInt(BandSum(freq, band[1], band[2]), band[2] - band[1])
  IN RMin(One, RMax(Zero, RMul(RDivInt(avg, 255), RSub(One, Tilt(i, bars)))))

\* The loop over the bars; slots past settings.bars keep their value.
BarValuesAfter(barValues, freq, bandMap, bars) ==
  [k \in 1..Len(barValues) |->
     IF k <= bars THEN BarValue(freq, bandMap[k], k - 1, bars) ELSE barValues[k]]

(***************************************************************************)
(* AuroraOrbit2DVisualizer as a state machine.                             *)
(*   vis2d      the object's fields (ctx is TRUE once init stored a        *)
(*              drawing context)                                           *)
(*   call2d     the last call made on the object, with its arguments and   *)
(*              the values Math.random() returned in it                    *)
(*   frames2d   the number of update calls that ran the feature extractor  *)
(*   sawEmpty2d whether one of them was given a zero-length array          *)
(*   bmArgs, bmOut   arguments and result of the band mapper when it is     *)
(*              exercised on its own                                       *)
(*   app        the player page of src/app.js: the fields of STATE, the    *)
(*              module-level bandMap and audioCtx, and the browser's       *)
(*              queues (animation-frame callbacks, play() calls awaiting   *)
(*              their promises, the armed onloadedmetadata handler)        *)
(*   drv        the page script that drives the visualiser manager (the    *)
(*              last script of src/unnamed/part_003): audioCtx, and        *)
(*              STATE.quality and STATE.lastFrameTime (milliseconds)       *)
(*   gl, glCall, pulse   the WebGL visualiser, described where it is       *)
(*              defined below                                              *)
(*   firstStart the start bin of band 0 when the band mapper is given the  *)
(*              sizes of a real analyser (-1 before it is computed)        *)
(*   noise      the SimplexNoise instances built so far and the values     *)
(*              their noise3D calls returned                               *)
(*   mgr        the VisualizerManager of src/unnamed/part_005 and the      *)
(*              visualiser instances it has created                        *)
(*   pg         the player page of src/unnamed/part_005: STATE.tracks,     *)
(*              STATE.current, STATE.playing and the addFiles invocations  *)
(*              that await metadata                                        *)
(***************************************************************************)
VARIABLES vis2d, call2d, frames2d, sawEmpty2d, bmArgs, bmOut, app, drv, gl, glCall, pulse,
          firstStart, noise, mgr, pg

vars ==
  <<vis2d, call2d, frames2d, sawEmpty2d, bmArgs, bmOut, app, drv, gl, glCall, pulse,
    firstStart, noise, mgr, pg>>

varsRest == <<app, drv, gl, glCall, pulse, firstStart, noise, mgr, pg>>

varsPage ==
  <<bmArgs, bmOut, vis2d, call2d, frames2d, sawEmpty2d, drv, gl, glCall, pulse,
    firstStart, noise, mgr, pg>>

varsNotNoise ==
  <<bmArgs, bmOut, vis2d, call2d, frames2d, sawEmpty2d, app, drv, gl, glCall, pulse,
    firstStart, mgr, pg>>

varsNotMgr ==
  <<bmArgs, bmOut, vis2d, call2d, frames2d, sawEmpty2d, app, drv, gl, glCall, pulse,
    firstStart, noise, pg>>

varsNotPg ==
  <<bmArgs, bmOut, vis2d, call2d, frames2d, sawEmpty2d, app, drv, gl, glCall, pulse,
    firstStart, noise, mgr>>

varsNotGl ==
  <<bmArgs, bmOut, vis2d, call2d, frames2d, sawEmpty2d, app, drv, pulse, firstStart,
    noise, mgr, pg>>

vars2d == <<vis2d, call2d, frames2d, sawEmpty2d>>

varsBm == <<bmArgs, bmOut>>

Zeros(n) == [k \in 1..n |-> Zero]

\* Values Math.random() returns, and the arrays a fill loop can produce.
RandVals == {Zero, Rat(1, 2)}

RandomFills(n) == {[k \in 1..n |-> v] : v \in RandVals}

DefaultSampleRate == 44100

SampleRates2D == {8000, 48000}

Levels == {"high", "medium", "low"}

\* Levels a caller can pass; "ultra" is not a key of the presets.
LevelArgs == Levels \cup {"ultra"}

\* const presets = { high: {...}, medium: {...}, low: {...} }
Presets2D(level) ==
  CASE level = "high"   -> [bars |-> BarsHigh, glow |-> 28, sparkCount |-> SparkHigh]
    [] level = "medium" -> [bars |-> BarsHigh, glow |-> 22, sparkCount |-> SparkMedium]
    [] level = "low"    -> [bars |-> BarsLow, glow |-> 18, sparkCount |-> SparkLow]

\* this.settings = { bars: 48, glow: 26, sparkCount: 180 }
CtorSettings2D == [bars |-> BarsHigh, glow |-> 26, sparkCount |-> SparkDefault]

ZeroAudio == [f \in Fields |-> Zero]

NoCall == [op |-> "new", level |-> "", freq |-> <<>>, wave |-> <<>>,
           dt |-> Zero, ran |-> FALSE, drawn |-> <<>>]

\* The object the constructor builds; seeds and hue are Math.random() draws.
Constructed2D(seeds, hue) ==
  [ctx        |-> FALSE,
   sampleRate |-> DefaultSampleRate,
   bandMap    |-> Null,
   barValues  |-> Zeros(CtorArrayLen),
   sparkSeeds |-> seeds,
   audioState |-> ZeroAudio,
   quality    |-> "high",
   settings   |-> CtorSettings2D,
   lastHue    |-> hue]

Init2D ==
  /\ \E seeds \in RandomFills(CtorArrayLen), hue \in RandVals :
       vis2d = Constructed2D(seeds, hue)
  /\ call2d = NoCall
  /\ frames2d = 0
  /\ sawEmpty2d = FALSE

IdleBm ==
  /\ bmArgs = [binCount |-> 1, bandCount |-> 1, sampleRate |-> DefaultSampleRate]
  /\ bmOut = Null

\* const STATE = { tracks: [], current: -1, playing: false, rafId: null,
\* quality: "high", bars: 48, ..., peakHold: [], peakDecay: 0.01 }, with
\* let audioCtx = null and let bandMap = null; nothing is queued.
InitApp ==
  app = [tracks    |-> 0,
         current   |-> -1,
         playing   |-> FALSE,
         rafId     |-> 0,
         quality   |-> "high",
         bars      |-> AppBarsMedium,
         peakHold  |-> <<>>,
         peakDecay |-> Rat(1, 100),
         bandMap   |-> Null,
         audioCtx  |-> FALSE,
         pending   |-> {},
         nextId    |-> 1,
         plays     |-> 0,
         meta      |-> "none"]

\* Readings of performance.now() and animation-frame timestamps, in ms.
ClockVals == {0, 50}

\* let audioCtx = null; STATE = { ..., quality: qualitySel.value,
\* lastFrameTime: performance.now() }
\* The WebGL visualiser of src/unnamed/part_002 as constructed, and the peak
\* pulse before any trigger; both are described where their actions are.
\* The band count of the WebGL class (48 in the code), scaled down.
GlBands == 3

\* QUALITY_PRESETS[level].bloom
GlBloom(level) ==
  CASE level = "high"   -> One
    [] level = "medium" -> Rat(85, 100)
    [] level = "low"    -> Rat(7, 10)

\* this.baseMinor = 0.66
BaseMinor == Rat(66, 100)

\* The fields the constructor sets; sampleRate is not set before init (0 here).
ConstructedGl ==
  [renderer |-> FALSE, uniforms |-> FALSE, starfield |-> FALSE,
   sampleRate |-> 0, quality |-> "high", bloom |-> GlBloom("high"),
   time |-> Zero, hueShift |-> Zero, bandMap |-> Null,
   bandLevels |-> Zeros(GlBands), audioState |-> ZeroAudio,
   lastBass |-> Zero, peakPulse |-> Zero, minorRadius |-> BaseMinor,
   starRot |-> <<Zero, Zero>>]

NoGlCall == [op |-> "new", dt |-> Zero, ran |-> FALSE, triggered |-> FALSE, frames |-> 0]

IdleGl == gl = ConstructedGl /\ glCall = NoGlCall

IdlePulse == pulse = [peakPulse |-> Zero, elapsed |-> Zero, steps |-> 0]

IdleDrv == drv = [audioCtx |-> FALSE, quality |-> "high", lastFrameTime |-> 0]

\* No SimplexNoise instance has been built.
IdleNoise ==
  noise = [inst |-> <<>>, log |-> <<>>, reads |-> {}, calls |-> 0, repeats |-> 0]

\* new VisualizerManager(): the constructor's fields, the cache of
\* supportsWebGL() not yet filled, no visualiser created.
ConstructedMgr(variant, quality) ==
  [variant |-> variant, container |-> FALSE, impl |-> 0, activeType |-> "none",
   quality |-> quality, lastWidth |-> 0, fallbackDisplay |-> "block",
   webglCapable |-> "unknown", inst |-> <<>>,
   last |-> [op |-> "new", threw |-> FALSE, from |-> "none", had |-> 0,
             webgl |-> "none", ran |-> FALSE, quality |-> quality]]

IdleMgr == mgr = ConstructedMgr("aurora", "high")

\* The page of src/unnamed/part_005 as loaded: STATE, and no addFiles
\* invocation or play() call under way.
LoadedPg ==
  [tracks |-> <<>>, current |-> -1, playing |-> FALSE, jobs |-> <<>>,
   meta |-> "none", shown |-> 0, adds |-> 0,
   last |-> [op |-> "load", from |-> -1, count |-> 0]]

IdlePg == pg = LoadedPg

\* The start of band 0 has not been computed.
IdleFirst == firstStart = -1

\* Everything outside the 2D object, the band mapper, the two pages and the
\* WebGL object is as constructed.
IdleOthers == IdleFirst /\ IdleNoise /\ IdleMgr /\ IdlePg

IdleRest == InitApp /\ IdleDrv /\ IdleGl /\ IdlePulse /\ IdleOthers

Init == Init2D /\ IdleBm /\ IdleRest

\* init(container, analyser): this.sampleRate = analyser.context.sampleRate || 44100
\* and this.ctx = canvas.getContext('2d', ...).  A manager initialises an
\* object once, right after constructing it, and makes no init or
\* setQuality call on it after dispose(); update takes no notice of dispose.
Live2D == call2d.op # "dispose"

InitVis(sampleRate) ==
  /\ Live2D
  /\ ~vis2d.ctx
  /\ vis2d' = [vis2d EXCEPT !.ctx = TRUE, !.sampleRate = sampleRate]
  /\ call2d' = [NoCall EXCEPT !.op = "init"]
  /\ UNCHANGED <<frames2d, sawEmpty2d>>

\* A mutant of QualityApplied: the arrays only grow and keep their values,
\* as in the variant that allocates Math.max(new size, old length) slots.
QualityKeepsArrays(v, level, seeds) ==
  [v EXCEPT !.quality = level,
            !.settings = Presets2D(level),
            !.barValues = [k \in 1..Max2(Presets2D(level).bars, Len(v.barValues)) |->
                             IF k <= Len(v.barValues) THEN v.barValues[k] ELSE Zero],
            !.sparkSeeds = [k \in 1..Max2(Presets2D(level).sparkCount, Len(v.sparkSeeds)) |->
                             IF k <= Len(v.sparkSeeds) THEN v.sparkSeeds[k]
                             ELSE seeds[1]],
            !.bandMap = Null]

\* The body of setQuality for a level of the presets.
QualityApplied(v, level, seeds) ==
  [v EXCEPT !.quality = level,
            !.settings = Presets2D(level),
            !.barValues = Zeros(Presets2D(level).bars),
            !.sparkSeeds = seeds,
            !.bandMap = Null]

\* setQuality(level): if (!presets[level]) return;
SetQuality(level) ==
  /\ Live2D
  /\ IF level \in Levels
     THEN \E seeds \in RandomFills(Presets2D(level).sparkCount) :
            /\ vis2d' = QualityApplied(vis2d, level, seeds)
            /\ call2d' = [NoCall EXCEPT !.op = "setQuality", !.level = level,
                                        !.ran = TRUE, !.drawn = seeds]
     ELSE /\ vis2d' = vis2d
          /\ call2d' = [NoCall EXCEPT !.op = "setQuality", !.level = level]
  /\ UNCHANGED <<frames2d, sawEmpty2d>>

\* this.lastHue = (this.lastHue + this.audioState.energy * 0.03 * dt) % 1.0,
\* executed once per bar.
RECURSIVE HueAfter(_, _, _)
HueAfter(hue, step, n) ==
  IF n = 0 THEN hue ELSE HueAfter(RMod1(RAdd(hue, step)), step, n - 1)

\* const speed = 0.05 + this.audioState.highs * 0.6;
\* this.sparkSeeds[i] = (this.sparkSeeds[i] + dt * speed) % 1.0
SeedsAfter(sparkSeeds, highs, dt) ==
  [k \in 1..Len(sparkSeeds) |->
     RMod1(RAdd(sparkSeeds[k], RMul(dt, RAdd(Rat(1, 20), RMul(highs, Rat(3, 5))))))]

\* _updateAudioStats(freq, wave) followed by the drawing loops of update.
Updated2D(v, freq, wave, dt) ==
  LET bandMap == BandMapFor2D(v.bandMap, v.settings.bars, Len(freq), v.sampleRate)
      audio   == SmoothAudio2D(v.audioState, Targets2D(freq, wave, v.sampleRate))
  IN [v EXCEPT !.bandMap = bandMap,
               !.audioState = audio,
               !.barValues = BarValuesAfter(v.barValues, freq, bandMap, v.settings.bars),
               !.lastHue = HueAfter(v.lastHue,
                                    RMul(RMul(audio.energy, Rat(3, 100)), dt),
                                    v.settings.bars),
               !.sparkSeeds = SeedsAfter(v.sparkSeeds, audio.highs, dt)]

FreqLens == {0, MaxBins \div 2, MaxBins}

\* Byte frames of one length: silent, saturated, and bass only.
FreqFrames ==
  UNION {{[i \in 1..n |-> 0], [i \in 1..n |-> 255],
          [i \in 1..n |-> IF i = 1 THEN 255 ELSE 0]} : n \in FreqLens}

\* Waveforms: none, silence (all 128), and full scale (all 0).
WaveFrames == {<<>>, [i \in 1..WaveLen |-> 128], [i \in 1..WaveLen |-> 0]}

DtVals == {Zero, Rat(1, 2)}

\* update(freq, wave, dt): if (!this.ctx) return;
Update(freq, wave, dt) ==
  /\ frames2d < MaxFrames
  /\ IF vis2d.ctx
     THEN /\ vis2d' = Updated2D(vis2d, freq, wave, dt)
          /\ frames2d' = frames2d + 1
          /\ sawEmpty2d' = (sawEmpty2d \/ Len(freq) = 0 \/ Len(wave) = 0)
     ELSE UNCHANGED <<vis2d, frames2d, sawEmpty2d>>
  /\ call2d' = [NoCall EXCEPT !.op = "update", !.freq = freq, !.wave = wave,
                              !.dt = dt, !.ran = vis2d.ctx]

\* dispose() { }
Dispose ==
  /\ Live2D
  /\ call2d' = [NoCall EXCEPT !.op = "dispose"]
  /\ UNCHANGED <<vis2d, frames2d, sawEmpty2d>>

Next ==
  \/ \E sampleRate \in SampleRates2D : InitVis(sampleRate) /\ UNCHANGED <<varsBm, varsRest>>
  \/ \E level \in LevelArgs : SetQuality(level) /\ UNCHANGED <<varsBm, varsRest>>
  \/ \E freq \in FreqFrames, wave \in WaveFrames, dt \in DtVals :
       Update(freq, wave, dt) /\ UNCHANGED <<varsBm, varsRest>>
  \/ Dispose /\ UNCHANGED <<varsBm, varsRest>>

Spec == Init /\ [][Next]_vars

(***************************************************************************)
(* The same object driven with one loud frame only (saturated frequencies, *)
(* full-scale waveform): every update dirties the bar values and, for a    *)
(* positive dt, the seeds, which is what a quality change has to discard.  *)
(***************************************************************************)
LoudFreq == [i \in 1..MaxBins |-> 255]

LoudWave == [i \in 1..WaveLen |-> 0]

NextQuality ==
  \/ \E sampleRate \in SampleRates2D : InitVis(sampleRate) /\ UNCHANGED <<varsBm, varsRest>>
  \/ \E level \in LevelArgs : SetQuality(level) /\ UNCHANGED <<varsBm, varsRest>>
  \/ \E dt \in DtVals : Update(LoudFreq, LoudWave, dt) /\ UNCHANGED <<varsBm, varsRest>>
  \/ Dispose /\ UNCHANGED <<varsBm, varsRest>>

SpecQuality == Init /\ [][NextQuality]_vars

(***************************************************************************)
(* The band mapper on its own: the arguments are drawn from the whole      *)
(* bounded domain, the sample rates including two whose nyquist is at or   *)
(* below fMin.                                                             *)
(***************************************************************************)
\* The 2D object as constructed, with Math.random() returning 0 throughout.
Idle2D ==
  /\ vis2d = Constructed2D(Zeros(CtorArrayLen), Zero)
  /\ call2d = NoCall
  /\ frames2d = 0
  /\ sawEmpty2d = FALSE

TestRates == {32, 64, 128, 48000}

InitBandMap ==
  /\ bmArgs \in [binCount : 1..MaxBins, bandCount : 1..MaxBands, sampleRate : TestRates]
  /\ bmOut = Null
  /\ vis2d = Constructed2D(Zeros(CtorArrayLen), Zero)
  /\ call2d = NoCall
  /\ frames2d = 0
  /\ sawEmpty2d = FALSE
  /\ IdleRest

BuildBandMap ==
  /\ bmOut = Null
  /\ bmOut' = MakeLogBandMap(bmArgs.binCount, bmArgs.bandCount, bmArgs.sampleRate)
  /\ UNCHANGED <<bmArgs, vars2d, varsRest>>

NextBandMap == BuildBandMap

SpecBandMap == InitBandMap /\ [][NextBandMap]_vars

(***************************************************************************)
(* The band mapper called again and again on a live 2D object, with its    *)
(* other methods called in between.  bmArgs holds the arguments of the     *)
(* last call (sampleRate is this.sampleRate at that time), the number of   *)
(* calls, and whether an update has run between the last two calls.        *)
(***************************************************************************)
\* The number of band-map builds explored.
MaxBuilds == 2

\* A mutant of MakeLogBandMap2D: a map the object already holds is returned
\* instead of a fresh one.
MakeLogBandMapCached(v, binCount, bandCount) ==
  IF v.bandMap # Null THEN v.bandMap
  ELSE MakeLogBandMap(binCount, bandCount, v.sampleRate)

\* this._makeLogBandMap(binCount, bandCount), which reads this.sampleRate
MakeLogBandMap2D(v, binCount, bandCount) ==
  MakeLogBandMap(binCount, bandCount, v.sampleRate)

InitRebuild ==
  /\ \E binCount \in {MaxBins \div 2, MaxBins}, bandCount \in {BarsLow, BarsHigh} :
       bmArgs = [binCount |-> binCount, bandCount |-> bandCount,
                 sampleRate |-> DefaultSampleRate,
                 builds |-> 0, framesAt |-> 0, between |-> FALSE]
  /\ bmOut = Null
  /\ Idle2D
  /\ IdleRest

RebuildBandMap ==
  /\ vis2d.ctx
  /\ bmArgs.builds < MaxBuilds
  /\ bmOut' = MakeLogBandMap2D(vis2d, bmArgs.binCount, bmArgs.bandCount)
  /\ bmArgs' = [bmArgs EXCEPT !.sampleRate = vis2d.sampleRate,
                              !.builds = @ + 1,
                              !.framesAt = frames2d,
                              !.between = (bmArgs.builds > 0 /\ frames2d > bmArgs.framesAt)]
  /\ UNCHANGED <<vars2d, varsRest>>

\* Frames of the two lengths, so that update rebuilds the object's own map.
RebuildFrames == {LoudFreq, [i \in 1..(MaxBins \div 2) |-> 255]}

NextRebuild ==
  \/ \E sampleRate \in SampleRates2D : InitVis(sampleRate) /\ UNCHANGED <<varsBm, varsRest>>
  \/ \E level \in LevelArgs : SetQuality(level) /\ UNCHANGED <<varsBm, varsRest>>
  \/ \E freq \in RebuildFrames :
       Update(freq, LoudWave, Zero) /\ UNCHANGED <<varsBm, varsRest>>
  \/ Dispose /\ UNCHANGED <<varsBm, varsRest>>
  \/ RebuildBandMap

SpecRebuild == InitRebuild /\ [][NextRebuild]_vars

(***************************************************************************)
(* The band mapper at the sizes of a real analyser.  The edges of the      *)
(* bands are bandCount-th roots whose powers exceed 32-bit integers at     *)
(* these sizes, except the lower edge of band 0: its exponent t0 is 0,     *)
(* Math.pow(fMax / fMin, 0) is 1 and f0 is fMin.                           *)
(***************************************************************************)
\* b0 of band 0: Math.max(0, Math.floor((fMin / nyquist) * binCount))
FirstBandStart(binCount, sampleRate) ==
  Max2(0, (LowNum(sampleRate) * binCount) \div LowDen(sampleRate))

\* frequencyBinCount of an AnalyserNode: half of an fftSize of 32 .. 32768.
AnalyserBins == {16, 32, 64, 128, 256, 512, 1024, 2048, 4096, 8192, 16384}

\* The band counts of the presets (32, 48, 64).
PresetBands == {32, 48, 64}

\* Sample rates of audio hardware.
HardwareRates == {8000, 22050, 44100, 48000, 96000}

InitScenario ==
  /\ bmArgs \in [binCount : AnalyserBins, bandCount : PresetBands,
                 sampleRate : HardwareRates]
  /\ bmOut = Null
  /\ Idle2D
  /\ InitApp /\ IdleDrv /\ IdleGl /\ IdlePulse /\ IdleOthers

\* The first turn of the loop of makeLogBandMap, up to b0.
FirstBand ==
  /\ firstStart = -1
  /\ firstStart' = FirstBandStart(bmArgs.binCount, bmArgs.sampleRate)
  /\ UNCHANGED <<varsBm, vars2d, app, drv, gl, glCall, pulse, noise, mgr, pg>>

NextScenario == FirstBand

SpecScenario == InitScenario /\ [][NextScenario]_vars

(***************************************************************************)
(* The player page of src/app.js: transport, quality selector and the      *)
(* animation loop.  The browser runs one handler at a time; an await in    *)
(* play() ends the handler and its continuation runs later.                *)
(***************************************************************************)
\* audioCtx.sampleRate of the page's AudioContext.
AppSampleRate == 48000

\* analyser.getByteFrequencyData(freqData): frequencyBinCount bytes.
AppFrames == {[i \in 1..MaxBins |-> 0], [i \in 1..MaxBins |-> 255]}

\* const visH = H * 0.62
VisH == RMul(Num(CanvasH), Rat(62, 100))

\* const tilt = Math.pow(i / STATE.bars, 0.7) * 0.15
AppTilt(i, bars) == RMul(PowFloor(i, bars, 7, 10, AppPowGrid), Rat(15, 100))

\* bars[i] = Math.min(1, Math.max(0, (avg / 255) * (1 - tilt)))
AppBar(freq, band, i, bars) ==
  LET avg == RDivInt(BandSum(freq, band[1], band[2]), band[2] - band[1])
  IN RMin(One, RMax(Zero, RMul(RDivInt(avg, 255), RSub(One, AppTilt(i, bars)))))

\* const h = Math.max(2, bars[i] * visH);
\* STATE.peakHold[i] = Math.max(STATE.peakHold[i] - STATE.peakDecay * visH, h)
PeakAfter(peak, peakDecay, bar) ==
  RMax(RSub(peak, RMul(peakDecay, VisH)), RMax(Num(2), RMul(bar, VisH)))

\* drawFrame(freq, wave): the lazy band map with its peak reset, then the
\* per-bar peak hold.
DrawFrame(a, freq) ==
  LET rebuild == a.bandMap = Null \/ Len(a.bandMap) # a.bars
      bandMap == IF rebuild THEN MakeLogBandMap(Len(freq), a.bars, AppSampleRate)
                 ELSE a.bandMap
      hold    == IF rebuild THEN Zeros(a.bars) ELSE a.peakHold
  IN [a EXCEPT !.bandMap = bandMap,
               !.peakHold =
                 [k \in 1..Max2(a.bars, Len(hold)) |->
                    IF k <= a.bars
                    THEN PeakAfter(IF k <= Len(hold) THEN hold[k] ELSE NaN,
                                   a.peakDecay,
                                   AppBar(freq, bandMap[k], k - 1, a.bars))
                    ELSE hold[k]]]

\* loop(): STATE.rafId = requestAnimationFrame(loop); if (!analyser) return;
\* ... drawFrame(freqData, timeData)
Loop(a, freq) ==
  LET r == [a EXCEPT !.rafId = a.nextId,
                     !.pending = a.pending \cup {a.nextId},
                     !.nextId = a.nextId + 1]
  IN IF a.audioCtx THEN DrawFrame(r, freq) ELSE r

\* loadTrack(idx, autoplay): arms audioEl.onloadedmetadata.
LoadTrack(a, idx, autoplay) ==
  IF idx < 0 \/ idx >= a.tracks THEN a
  ELSE [a EXCEPT !.current = idx,
                 !.meta = IF autoplay THEN "auto" ELSE "plain"]

\* play() up to its first await: ensureAudio() creates audioCtx and analyser.
PlayCalled(a) == [a EXCEPT !.audioCtx = TRUE, !.plays = a.plays + 1]

\* pause()
Paused(a) ==
  [a EXCEPT !.playing = FALSE, !.pending = a.pending \ {a.rafId}, !.rafId = 0]

\* addFiles(fileList) with n audio files
AddFiles(n) ==
  /\ app.tracks + n <= MaxTracks
  /\ app' = LET a == [app EXCEPT !.tracks = app.tracks + n]
            IN IF a.current = -1 THEN LoadTrack(a, 0, FALSE) ELSE a

\* li.addEventListener("click", () => loadTrack(i, true))
TrackClick(i) ==
  /\ i < app.tracks
  /\ app' = LoadTrack(app, i, TRUE)

\* audioEl.onloadedmetadata: ...; if (autoplay) play();
MetadataLoaded ==
  /\ app.meta # "none"
  /\ app.meta = "auto" => app.plays < MaxPlays
  /\ app' = LET a == [app EXCEPT !.meta = "none"]
            IN IF app.meta = "auto" THEN PlayCalled(a) ELSE a

\* The play/pause button and the space key: STATE.playing ? pause() : play()
TogglePlay ==
  /\ app.playing \/ app.plays < MaxPlays
  /\ app' = IF app.playing THEN Paused(app) ELSE PlayCalled(app)

\* The rest of play() after audioCtx.resume() and audioEl.play() resolved
\* (audioEl has a source once a track is loaded).
PlayResolved(freq) ==
  /\ app.plays > 0
  /\ app.current >= 0
  /\ app.nextId <= MaxRafIds
  /\ app' = Loop([app EXCEPT !.plays = app.plays - 1, !.playing = TRUE], freq)

\* catch (e) { console.warn("Play failed:", e); }
PlayRejected ==
  /\ app.plays > 0
  /\ app' = [app EXCEPT !.plays = app.plays - 1]

\* audioEl "ended": the next track if there is one, else pause().
Ended ==
  /\ app.playing
  /\ app.current >= 0
  /\ app' = IF app.current + 1 < app.tracks
            THEN LoadTrack(app, app.current + 1, TRUE)
            ELSE Paused(app)

\* The browser runs a pending animation-frame callback: loop().
AnimationFrame(id, freq) ==
  /\ id \in app.pending
  /\ app.nextId <= MaxRafIds
  /\ app' = Loop([app EXCEPT !.pending = app.pending \ {id}], freq)

\* qualitySel "change"
QualityChange(level) ==
  app' = LET bars == CASE level = "high"   -> AppBarsHigh
                       [] level = "medium" -> AppBarsMedium
                       [] OTHER            -> AppBarsLow
             decay == CASE level = "high"   -> Rat(12, 1000)
                        [] level = "medium" -> Rat(16, 1000)
                        [] OTHER            -> Rat(20, 1000)
         IN [app EXCEPT !.quality = level,
                        !.bars = bars,
                        !.peakDecay = decay,
                        !.peakHold = Zeros(bars)]

InitPage ==
  /\ InitApp
  /\ IdleDrv
  /\ IdleGl
  /\ IdlePulse
  /\ IdleOthers
  /\ IdleBm
  /\ vis2d = Constructed2D(Zeros(CtorArrayLen), Zero)
  /\ call2d = NoCall
  /\ frames2d = 0
  /\ sawEmpty2d = FALSE

NextPage ==
  \/ \E n \in 1..MaxTracks : AddFiles(n) /\ UNCHANGED varsPage
  \/ \E i \in 0..(MaxTracks - 1) : TrackClick(i) /\ UNCHANGED varsPage
  \/ MetadataLoaded /\ UNCHANGED varsPage
  \/ TogglePlay /\ UNCHANGED varsPage
  \/ \E freq \in AppFrames : PlayResolved(freq) /\ UNCHANGED varsPage
  \/ PlayRejected /\ UNCHANGED varsPage
  \/ Ended /\ UNCHANGED varsPage
  \/ \E id \in 1..MaxRafIds, freq \in AppFrames :
       AnimationFrame(id, freq) /\ UNCHANGED varsPage
  \/ \E level \in Levels : QualityChange(level) /\ UNCHANGED varsPage

SpecPage == InitPage /\ [][NextPage]_vars

(***************************************************************************)
(* The page script of src/unnamed/part_003 (its last version) driving the  *)
(* visualiser manager, whose implementation here is the 2D visualiser.     *)
(***************************************************************************)
InitDriver ==
  /\ Init2D
  /\ IdleGl
  /\ IdlePulse
  /\ IdleOthers
  /\ IdleBm
  /\ InitApp
  /\ \E level \in Levels, now \in ClockVals :
       drv = [audioCtx |-> FALSE, quality |-> level, lastFrameTime |-> now]

\* const dt = Math.min(0.12, Math.max(0.001,
\*                     (now - STATE.lastFrameTime) / 1000 || 0.016))
DriverDt(now, lastFrameTime) ==
  LET raw == Rat(now - lastFrameTime, 1000)
  IN RMin(Rat(12, 100), RMax(Rat(1, 1000), IF raw = Zero THEN Rat(16, 1000) ELSE raw))

\* The frame ensureAudio() feeds: freqData.fill(0); timeData.fill(128).
SilentFreq == [i \in 1..MaxBins |-> 0]

SilentWave == [i \in 1..WaveLen |-> 128]

\* ensureAudio(): visualizerManager.init(stage, analyser), which constructs
\* the visualiser, initialises it and sets the manager's quality on it;
\* visualizerManager.setQuality(STATE.quality);
\* visualizerManager.update(freqData, timeData, 0).
EnsureAudio(sampleRate) ==
  /\ ~drv.audioCtx
  /\ ~vis2d.ctx
  /\ frames2d < MaxFrames
  /\ \E seeds1, seeds2 \in RandomFills(Presets2D(drv.quality).sparkCount) :
       vis2d' = Updated2D(
                  QualityApplied(
                    QualityApplied([vis2d EXCEPT !.ctx = TRUE, !.sampleRate = sampleRate],
                                   drv.quality, seeds1),
                    drv.quality, seeds2),
                  SilentFreq, SilentWave, Zero)
  /\ call2d' = [NoCall EXCEPT !.op = "update", !.freq = SilentFreq,
                              !.wave = SilentWave, !.dt = Zero, !.ran = TRUE]
  /\ frames2d' = frames2d + 1
  /\ UNCHANGED sawEmpty2d
  /\ drv' = [drv EXCEPT !.audioCtx = TRUE]

\* play() after its awaits: STATE.lastFrameTime = performance.now()
DriverPlay(now) ==
  /\ drv.audioCtx
  /\ drv' = [drv EXCEPT !.lastFrameTime = now]
  /\ UNCHANGED vars2d

\* loop(now): if (!analyser) return; ...; STATE.lastFrameTime = now;
\* visualizerManager.update(freqData, timeData, dt)
DriverLoop(now, freq, wave) ==
  /\ drv.audioCtx
  /\ Update(freq, wave, DriverDt(now, drv.lastFrameTime))
  /\ drv' = [drv EXCEPT !.lastFrameTime = now]

\* qualitySel "change": STATE.quality = qualitySel.value;
\* visualizerManager.setQuality(STATE.quality)
DriverQuality(level) ==
  /\ drv' = [drv EXCEPT !.quality = level]
  /\ IF drv.audioCtx THEN SetQuality(level) ELSE UNCHANGED vars2d

NextDriver ==
  \/ \E sampleRate \in SampleRates2D :
       EnsureAudio(sampleRate) /\ UNCHANGED <<varsBm, app, gl, glCall, pulse, firstStart, noise, mgr, pg>>
  \/ \E now \in ClockVals : DriverPlay(now) /\ UNCHANGED <<varsBm, app, gl, glCall, pulse, firstStart, noise, mgr, pg>>
  \/ \E now \in ClockVals, freq \in {SilentFreq, LoudFreq}, wave \in {SilentWave, LoudWave} :
       DriverLoop(now, freq, wave) /\ UNCHANGED <<varsBm, app, gl, glCall, pulse, firstStart, noise, mgr, pg>>
  \/ \E level \in Levels : DriverQuality(level) /\ UNCHANGED <<varsBm, app, gl, glCall, pulse, firstStart, noise, mgr, pg>>

SpecDriver == InitDriver /\ [][NextDriver]_vars

(***************************************************************************)
(* The WebGL visualiser AuroraOrbitVisualizer: the class that starts at    *)
(* line 1275 of src/unnamed/part_002.  Only the fields the update keeps    *)
(* from one frame to the next are modelled; the scene graph, the camera    *)
(* and the shader uniforms are derived from them on every frame.           *)
(*   gl      the object's fields (renderer, uniforms and starfield are     *)
(*           TRUE when the object holds one)                               *)
(*   glCall  the last call made on the object and the number of update     *)
(*           calls made so far                                             *)
(***************************************************************************)
\* The number of update calls explored.
MaxGlFrames == 2

\* The grid of Math.pow(avg / 255, 0.9); the frames explored make avg / 255
\* either 0 or 1, where the power is exact.
GlPowGrid == 2

\* Lerp factors with a bass that follows its target by half the distance.
GlSmoothFast ==
  [energy |-> Rat(14, 100), bass |-> Rat(1, 2),
   mids |-> Rat(18, 100), highs |-> Rat(2, 10)]

\* The lerp factors of _computeAudioFeatures.
GlSmooth ==
  [energy |-> Rat(14, 100), bass |-> Rat(18, 100),
   mids |-> Rat(18, 100), highs |-> Rat(2, 10)]

\* const energy = Math.min(1, rms * 1.2)
GlEnergyTarget(wave) == RMin(One, RMul(Rms(wave), Rat(12, 10)))

\* The instantaneous targets of one frame.
GlTargets(freq, wave, sampleRate) ==
  [energy |-> GlEnergyTarget(wave),
   bass   |-> RangeTarget(freq, BassBins(Len(freq), sampleRate)),
   mids   |-> RangeTarget(freq, MidsBins(Len(freq), sampleRate)),
   highs  |-> RangeTarget(freq, HighsBins(Len(freq), sampleRate))]

\* this.audioState.x = lerp(this.audioState.x, target, factor)
GlSmoothAudio(audioState, targets) ==
  [f \in Fields |-> Lerp(audioState[f], targets[f], GlSmooth[f])]

\* !this.bandMap || this.bandMap.length !== 48 || this.bandMap[0][1] > freq.length
GlNeedsRebuild(bandMap, freqLen) ==
  \/ bandMap = Null
  \/ Len(bandMap) # GlBands
  \/ bandMap[1][2] > freqLen

\* The band map _computeAudioFeatures uses for this frame.
GlBandMapFor(bandMap, freqLen, sampleRate) ==
  IF GlNeedsRebuild(bandMap, freqLen)
  THEN MakeLogBandMap(freqLen, GlBands, sampleRate)
  ELSE bandMap

\* bandLevels[i] = lerp(bandLevels[i] || 0, Math.pow(avg / 255, 0.9), 0.18)
\* with avg = sum / Math.max(1, b1 - b0)
GlBandLevel(level, freq, band) ==
  LET avg    == RDivInt(BandSum(freq, band[1], band[2]), Max2(1, band[2] - band[1]))
      x      == RDivInt(avg, 255)
      target == IF IsNaN(x) THEN NaN ELSE PowFloor(x[1], x[2], 9, 10, GlPowGrid)
      prev   == IF IsNaN(level) THEN Zero ELSE level
  IN Lerp(prev, target, Rat(18, 100))

\* The loop over the bands (the array always has bandMap.length slots here).
GlBandLevelsAfter(bandLevels, freq, bandMap) ==
  [k \in 1..Len(bandMap) |-> GlBandLevel(bandLevels[k], freq, bandMap[k])]

\* bassPulse = Math.max(-1, Math.min(1, bass * 2.0 - 1.0))
\* minorRadius = Math.max(0.45, baseMinor * (1.0 + bassPulse * 0.12))
MinorRadius(bass) ==
  LET bassPulse == RMax(RNeg(One), RMin(One, RSub(RMul(bass, Num(2)), One)))
  IN RMax(Rat(45, 100), RMul(BaseMinor, RAdd(One, RMul(bassPulse, Rat(12, 100)))))

\* this.hueShift += dt * (0.18 + audio.energy * 3.2)
HueShiftAfter(hueShift, energy, dt) ==
  RAdd(hueShift, RMul(dt, RAdd(Rat(18, 100), RMul(energy, Rat(32, 10)))))

\* audio.bass > this.lastBass + 0.22 && audio.bass > 0.4
PulseTrigger(bass, lastBass) ==
  RLess(RAdd(lastBass, Rat(22, 100)), bass) /\ RLess(Rat(4, 10), bass)

\* The decay step without its Math.max(0, ...).
PulseNoFloor(peakPulse, dt) == RSub(peakPulse, RMul(dt, Rat(3, 2)))

\* this.peakPulse = Math.max(0, this.peakPulse - dt * 1.5)
PulseAfter(peakPulse, dt) == RMax(Zero, RSub(peakPulse, RMul(dt, Rat(3, 2))))

\* starfield.rotation.y += dt * 0.015; starfield.rotation.z += dt * 0.004
StarRotAfter(starRot, dt) ==
  <<RAdd(starRot[1], RMul(dt, Rat(15, 1000))), RAdd(starRot[2], RMul(dt, Rat(4, 1000)))>>

\* analyser.context.sampleRate; an AudioContext always reports a positive
\* rate, so the || 44100 of init never applies.
GlRates == {8000, 48000}

\* init(container, analyser): the renderer, the scene with a fresh starfield,
\* the uniforms.
GlInit(sampleRate) ==
  /\ ~gl.uniforms
  /\ gl' = [gl EXCEPT !.renderer = TRUE, !.uniforms = TRUE, !.starfield = TRUE,
                      !.starRot = <<Zero, Zero>>,
                      !.sampleRate = sampleRate]
  /\ glCall' = [glCall EXCEPT !.op = "init", !.ran = FALSE, !.triggered = FALSE]

\* setQuality(level): an unknown level is ignored; _buildStarfield replaces
\* the starfield object, whose rotation starts at 0 again.
GlSetQuality(level) ==
  /\ gl' = IF level \notin Levels THEN gl
           ELSE [gl EXCEPT !.quality = level, !.bloom = GlBloom(level),
                           !.starRot = IF gl.starfield THEN <<Zero, Zero>> ELSE @]
  /\ glCall' = [glCall EXCEPT !.op = "setQuality", !.ran = FALSE, !.triggered = FALSE]

\* update(freq, wave, dt) on an object that has a renderer and uniforms.
GlUpdated(g, freq, wave, dt) ==
  LET audio    == GlSmoothAudio(g.audioState, GlTargets(freq, wave, g.sampleRate))
      bandMap  == GlBandMapFor(g.bandMap, Len(freq), g.sampleRate)
      levels   == IF Len(g.bandLevels) # Len(bandMap) THEN Zeros(Len(bandMap))
                  ELSE g.bandLevels
      peak     == IF PulseTrigger(audio.bass, g.lastBass) THEN One ELSE g.peakPulse
  IN [g EXCEPT !.time = RAdd(g.time, dt),
               !.audioState = audio,
               !.bandMap = bandMap,
               !.bandLevels = GlBandLevelsAfter(levels, freq, bandMap),
               !.hueShift = HueShiftAfter(g.hueShift, audio.energy, dt),
               !.minorRadius = MinorRadius(audio.bass),
               !.peakPulse = PulseAfter(peak, dt),
               !.lastBass = audio.bass,
               !.starRot = IF g.starfield THEN StarRotAfter(g.starRot, dt) ELSE @]

\* The frames handed to the WebGL object: silent or full-scale spectra of two
\* lengths, and a silent, a full-scale and a zero-length waveform.
GlFreqFrames ==
  {[k \in 1..MaxBins |-> 0], [k \in 1..MaxBins |-> 255], [k \in 1..(MaxBins \div 2) |-> 255]}

GlWaveFrames == {<<>>, [k \in 1..WaveLen |-> 128], [k \in 1..WaveLen |-> 0]}

\* Frame intervals in seconds: none, a third of a second, and the gap after
\* the page was in the background.
GlDtVals == {Zero, Rat(1, 3), Num(8)}

\* update(freq, wave, dt): if (!this.renderer || !this.uniforms) return;
GlUpdateStep(freq, wave, dt) ==
  LET ran == gl.renderer /\ gl.uniforms
  IN /\ gl' = IF ran THEN GlUpdated(gl, freq, wave, dt) ELSE gl
     /\ glCall' = [op |-> "update", dt |-> dt, ran |-> ran,
                   triggered |-> ran /\ PulseTrigger(gl'.audioState.bass, gl.lastBass),
                   frames |-> glCall.frames + 1]

GlUpdate(freq, wave, dt) ==
  /\ glCall.frames < MaxGlFrames
  /\ GlUpdateStep(freq, wave, dt)

\* dispose(): the renderer, the composer, the starfield and the scene go.
GlDispose ==
  /\ gl.renderer
  /\ gl' = [gl EXCEPT !.renderer = FALSE, !.starfield = FALSE]
  /\ glCall' = [glCall EXCEPT !.op = "dispose", !.ran = FALSE, !.triggered = FALSE]

InitGl == Idle2D /\ IdleBm /\ InitApp /\ IdleDrv /\ IdleGl /\ IdlePulse /\ IdleOthers

NextGl ==
  \/ \E sampleRate \in GlRates : GlInit(sampleRate) /\ UNCHANGED varsNotGl
  \/ \E level \in LevelArgs : GlSetQuality(level) /\ UNCHANGED varsNotGl
  \/ \E freq \in GlFreqFrames, wave \in GlWaveFrames, dt \in GlDtVals :
       GlUpdate(freq, wave, dt) /\ UNCHANGED varsNotGl
  \/ GlDispose /\ UNCHANGED varsNotGl

SpecGL == InitGl /\ [][NextGl]_vars

(***************************************************************************)
(* The WebGL object fed long enough for the smoothed bass to pass the      *)
(* floor of the pulse trigger (0.4): updates with silent or full-scale     *)
(* spectra and a silent waveform.                                          *)
(***************************************************************************)
\* The number of updates explored.
MaxBassFrames == 4

\* Frame intervals in seconds: none and one second.
BassDtVals == {Zero, One}

\* The largest denominator of the smoothed bass from which one more update
\* is explored: every update multiplies it by 50, and the exact arithmetic
\* of minorRadius has to stay within 32-bit integers.
MaxBassDen == 2500

\* update(freq, wave, dt) with a silent waveform
BassUpdate(freq, dt) ==
  /\ glCall.frames < MaxBassFrames
  /\ gl.audioState.bass[2] <= MaxBassDen
  /\ GlUpdateStep(freq, [k \in 1..WaveLen |-> 128], dt)

InitBass == InitGl

NextBass ==
  \/ \E sampleRate \in GlRates : GlInit(sampleRate) /\ UNCHANGED varsNotGl
  \/ \E freq \in GlFreqFrames, dt \in BassDtVals :
       BassUpdate(freq, dt) /\ UNCHANGED varsNotGl

SpecBass == InitBass /\ [][NextBass]_vars

(***************************************************************************)
(* The peak pulse of AuroraOrbitVisualizer.update on its own: the state    *)
(* right after line 1735 set peakPulse to 1.0, then the decay step of line *)
(* 1736 once in that update and once in every later update in which the    *)
(* trigger does not fire.                                                  *)
(*   pulse   peakPulse, the dt handed to the decay step since the trigger, *)
(*           and the number of decay steps                                 *)
(***************************************************************************)
\* The number of decay steps explored.
MaxPulseSteps == 8

\* Frame intervals of the decay steps, in seconds.
PulseDtVals == {Zero, Rat(1, 1000), Rat(1, 12), Rat(1, 6), Rat(1, 3)}

\* if (pulseTrigger) this.peakPulse = 1.0;
InitPulse ==
  /\ Idle2D /\ IdleBm /\ InitApp /\ IdleDrv /\ IdleGl /\ IdleOthers
  /\ pulse = [peakPulse |-> One, elapsed |-> Zero, steps |-> 0]

DecayStep(dt) ==
  /\ pulse.steps < MaxPulseSteps
  /\ pulse' = [peakPulse |-> PulseAfter(pulse.peakPulse, dt),
               elapsed |-> RAdd(pulse.elapsed, dt),
               steps |-> pulse.steps + 1]

NextPulse ==
  \E dt \in PulseDtVals : DecayStep(dt) /\ UNCHANGED <<varsBm, vars2d, app, drv, gl, glCall, firstStart, noise, mgr, pg>>

SpecPulse == InitPulse /\ [][NextPulse]_vars

(***************************************************************************)
(* SimplexNoise (src/visualizers/aurora.js, lines 83 to 201; the copy in   *)
(* src/unnamed/part_002 has the same constructor).  Seeds are integers.    *)
(* A value of noise3D is kept as its four corner contributions <<t, g>>,   *)
(* the number returned being 32 times the sum of t^4 * g over the corners. *)
(***************************************************************************)
\* s = (s * 16807) % 2147483647
LcgMul == 16807

LcgMod == 2147483647

\* this.p = new Uint8Array(512), filled in two halves of 256
PermHalf == 256

\* The number of SimplexNoise instances and of noise3D calls explored.
MaxNoiseInst == 2

MaxNoiseCalls == 3

\* A generator with an increment, whose state does not stay at 0.
LcgNextInc(s) == ((Abs(s) % 127773) * LcgMul + 1) % LcgMod

\* (s * 16807) % 2147483647 for an integer s; the sign of the result is the
\* sign of s.  The product is formed in two parts so that no intermediate
\* value leaves 32 bits: with q = m div 16807 and r = m mod 16807,
\* (a * 16807) mod m = 16807 * (a mod q) - r * (a div q), plus m if negative.
LcgNext(s) ==
  LET a == Abs(s) % LcgMod
      q == LcgMod \div LcgMul
      r == LcgMod % LcgMul
      t == LcgMul * (a % q) - r * (a \div q)
      u == IF t < 0 THEN t + LcgMod ELSE t
  IN IF s < 0 THEN 0 - u ELSE u

\* s & 255 for a 32-bit integer s (two's complement for a negative s)
LowByte(s) == IF s >= 0 THEN s % 256 ELSE (256 - ((0 - s) % 256)) % 256

\* The loop of the constructor: n more entries from generator state s.
\* (the generator states are produced 16 at a time to keep the evaluation
\* shallow)
RECURSIVE LcgRun(_, _)
LcgRun(s, n) == IF n = 0 THEN <<>> ELSE <<LcgNext(s)>> \o LcgRun(LcgNext(s), n - 1)

RECURSIVE PermFrom(_, _)
PermFrom(s, n) ==
  IF n = 0 THEN <<>>
  ELSE LET run == LcgRun(s, Min2(n, 16))
       IN [k \in 1..Len(run) |-> LowByte(run[k])] \o PermFrom(run[Len(run)], n - Len(run))

\* A table built from a generator state shared by all instances: each
\* construction continues where the previous one stopped.
PermTableShared(seed) ==
  LET h == PermFrom(seed + Len(noise.inst), PermHalf) IN h \o h

\* this.p after new SimplexNoise(seed): this.p[i] = this.p[i + 256] = s & 255
PermTable(seed) == LET h == PermFrom(seed, PermHalf) IN h \o h

\* Math.floor of a rational
RFloor(x) ==
  IF x[1] >= 0 THEN x[1] \div x[2] ELSE 0 - ((x[2] - x[1] - 1) \div x[2])

\* perm[idx]
PermAt(p, idx) == p[idx + 1]

\* The skewed cell <<i, j, k>> of a point and its offsets <<x0, y0, z0>>.
NoiseCell(pt) ==
  LET s == RDivInt(RAdd(RAdd(pt[1], pt[2]), pt[3]), 3)
  IN <<RFloor(RAdd(pt[1], s)), RFloor(RAdd(pt[2], s)), RFloor(RAdd(pt[3], s))>>

NoiseOffset(pt) ==
  LET c == NoiseCell(pt)
      t == Rat(c[1] + c[2] + c[3], 6)
  IN <<RSub(pt[1], RSub(Num(c[1]), t)),
       RSub(pt[2], RSub(Num(c[2]), t)),
       RSub(pt[3], RSub(Num(c[3]), t))>>

\* <<i1, j1, k1>> and <<i2, j2, k2>>: the order in which the simplex is
\* traversed, from the ranking of x0, y0 and z0.
NoiseSteps(o) ==
  IF RLeq(o[2], o[1])
  THEN IF RLeq(o[3], o[2]) THEN <<<<1, 0, 0>>, <<1, 1, 0>>>>
       ELSE IF RLeq(o[3], o[1]) THEN <<<<1, 0, 0>>, <<1, 0, 1>>>>
       ELSE <<<<0, 0, 1>>, <<1, 0, 1>>>>
  ELSE IF RLess(o[2], o[3]) THEN <<<<0, 0, 1>>, <<0, 1, 1>>>>
       ELSE IF RLess(o[1], o[3]) THEN <<<<0, 1, 0>>, <<0, 1, 1>>>>
       ELSE <<<<0, 1, 0>>, <<1, 1, 0>>>>

\* The lattice offsets of the four corners.
NoiseCorners(o) ==
  LET st == NoiseSteps(o) IN <<<<0, 0, 0>>, st[1], st[2], <<1, 1, 1>>>>

\* x_c = x0 - i_c + c * G3 for corner c (0 to 3), and likewise y_c, z_c
CornerOffset(o, corner, c) ==
  [a \in 1..3 |-> RAdd(RSub(o[a], Num(corner[a])), Rat(c, 6))]

\* t_c = 0.6 - x_c^2 - y_c^2 - z_c^2
CornerT(v) ==
  RSub(RSub(RSub(Rat(6, 10), RMul(v[1], v[1])), RMul(v[2], v[2])), RMul(v[3], v[3]))

\* The three table indices read for a corner:
\* perm[ii + i_c + perm[jj + j_c + perm[kk + k_c]]]
CornerReads(p, cell, corner) ==
  LET r1 == LowByte(cell[3]) + corner[3]
      r2 == LowByte(cell[2]) + corner[2] + PermAt(p, r1)
      r3 == LowByte(cell[1]) + corner[1] + PermAt(p, r2)
  IN <<r1, r2, r3>>

\* grad(hash, x, y, z)
Grad(hash, v) ==
  LET h == hash % 16
      u == IF h < 8 THEN v[1] ELSE v[2]
      w == IF h < 4 THEN v[2] ELSE IF h = 12 \/ h = 14 THEN v[1] ELSE v[3]
  IN RAdd(IF h % 2 = 0 THEN u ELSE RNeg(u),
          IF (h \div 2) % 2 = 0 THEN w ELSE RNeg(w))

\* The contribution of corner c: <<t_c, grad>> when t_c > 0, else nothing.
CornerValue(p, pt, c) ==
  LET o      == NoiseOffset(pt)
      corner == NoiseCorners(o)[c + 1]
      v      == CornerOffset(o, corner, c)
      t      == CornerT(v)
  IN IF RLess(Zero, t)
     THEN <<t, Grad(PermAt(p, CornerReads(p, NoiseCell(pt), corner)[3]), v)>>
     ELSE <<Zero, Zero>>

\* noise3D(x, y, z) on the table p
Noise3D(p, pt) == [c \in 1..4 |-> CornerValue(p, pt, c - 1)]

\* The table indices noise3D(x, y, z) reads.
NoiseReads(p, pt) ==
  LET o == NoiseOffset(pt)
  IN UNION {IF RLess(Zero, CornerT(CornerOffset(o, NoiseCorners(o)[c + 1], c)))
            THEN LET r == CornerReads(p, NoiseCell(pt), NoiseCorners(o)[c + 1])
                 IN {r[1], r[2], r[3]}
            ELSE {} : c \in 0..3}

\* The seeds: the default (0), the one AuroraOrbitVisualizer of part_002
\* passes (4711), and a negative one.
NoiseSeeds == {0, 4711, -5}

\* Points at which noise3D is evaluated.
NoisePoints ==
  {<<Rat(-1, 2), Rat(5, 4), Num(2)>>,
   <<Rat(1021, 4), Rat(511, 2), Rat(1023, 4)>>}

\* new SimplexNoise(seed)
NewNoise(seed) ==
  /\ Len(noise.inst) < MaxNoiseInst
  /\ noise' = [noise EXCEPT !.inst = Append(@, [seed |-> seed, p |-> PermTable(seed)])]

\* instance k's noise3D(x, y, z): nothing of the instance is written.
NoiseCall(k, pt) ==
  /\ k \in 1..Len(noise.inst)
  /\ noise.calls < MaxNoiseCalls
  /\ noise' = [noise EXCEPT
                 !.log = Append(@, <<noise.inst[k].seed, pt, Noise3D(noise.inst[k].p, pt)>>),
                 !.reads = NoiseReads(noise.inst[k].p, pt),
                 !.calls = @ + 1,
                 !.repeats = @ + IF \E n \in 1..Len(noise.log) :
                                      /\ noise.log[n][1] = noise.inst[k].seed
                                      /\ noise.log[n][2] = pt
                                 THEN 1 ELSE 0]

InitNoise ==
  /\ Idle2D /\ IdleBm /\ InitApp /\ IdleDrv /\ IdleGl /\ IdlePulse
  /\ IdleFirst /\ IdleNoise /\ IdleMgr /\ IdlePg

NextNoise ==
  \/ \E seed \in NoiseSeeds : NewNoise(seed) /\ UNCHANGED varsNotNoise
  \/ \E k \in 1..MaxNoiseInst, pt \in NoisePoints : NoiseCall(k, pt) /\ UNCHANGED varsNotNoise

SpecNoise == InitNoise /\ [][NextNoise]_vars

(***************************************************************************)
(* VisualizerManager (src/unnamed/part_005, lines 66 to 272) and the       *)
(* visualisers it creates.  mgr.inst lists every visualiser constructed,   *)
(* in order; mgr.impl is the position of this.impl in it (0 for null).     *)
(* Of a visualiser the model keeps: whether init() returned, whether its   *)
(* canvas is in the container, whether this.renderer is set (WebGL), the   *)
(* level setQuality() was last called with, the width of the last resize,  *)
(* whether a context-lost handler is registered and whether dispose() was  *)
(* called.  mgr.variant names the AuroraOrbitVisualizer that is loaded:    *)
(* the one of src/visualizers/aurora.js ("aurora") or the one of           *)
(* src/unnamed/part_002 ("part002").  Widths stand for width and height.   *)
(***************************************************************************)
\* The number of visualisers constructed in one behaviour.
MaxMgrInst == 4

\* The levels of the quality selector.
MgrLevels == {"low", "high"}

\* The widths passed to resize() and reported by container.clientWidth.
MgrWidths == {0, 2}

\* How AuroraOrbitVisualizer.init() ends: it returns; it throws before the
\* renderer is kept (no WebGL context); it throws after the canvas was
\* inserted (building the scene or the ResizeObserver fails).
WebGLOutcomes == {"ok", "early", "late"}

\* new AuroraOrbitVisualizer() / new AuroraOrbit2DVisualizer()
NewVis(kind) ==
  [kind |-> kind, inited |-> FALSE, canvas |-> FALSE, renderer |-> FALSE,
   handler |-> FALSE, quality |-> "none", width |-> 0, disposed |-> FALSE]

\* vis.dispose(): the WebGL visualiser removes its canvas and drops the
\* renderer; the 2D visualiser's dispose() is empty (the canvas #vis stays).
VisDispose(v) ==
  IF v.kind = "webgl"
  THEN [v EXCEPT !.canvas = FALSE, !.renderer = FALSE, !.disposed = TRUE]
  ELSE [v EXCEPT !.disposed = TRUE]

\* vis.resize(width, height)
VisResize(v, w) ==
  IF v.kind = "webgl"
  THEN IF v.renderer THEN [v EXCEPT !.width = w] ELSE v
  ELSE IF v.canvas THEN [v EXCEPT !.width = w] ELSE v

\* AuroraOrbitVisualizer.init() that throws.  In aurora.js the body is in a
\* try whose catch calls this.dispose() and rethrows; in part_002 there is
\* no try, so what was built before the throw stays.
AuroraInitFailed(variant, outcome) ==
  LET built == IF outcome = "late"
               THEN [NewVis("webgl") EXCEPT !.canvas = TRUE, !.renderer = TRUE]
               ELSE NewVis("webgl")
  IN IF variant = "aurora" THEN VisDispose(built) ELSE built

\* VisualizerManager.resize(width, height) on the manager record m
MgrResized(m, w) ==
  IF w = 0 THEN m
  ELSE LET m1 == [m EXCEPT !.lastWidth = w]
       IN IF m1.impl # 0
          THEN [m1 EXCEPT !.inst[m1.impl] = VisResize(@, w)]
          ELSE m1

\* A 2D branch that does not pass the manager's quality on.
Create2DUnset(m, cw) ==
  LET v  == [NewVis("2d") EXCEPT !.inited = TRUE, !.canvas = TRUE]
      m1 == [m EXCEPT !.inst = Append(@, v), !.impl = Len(m.inst) + 1,
                      !.activeType = "2d", !.fallbackDisplay = "block"]
  IN MgrResized(m1, IF m1.lastWidth # 0 THEN m1.lastWidth ELSE cw)

\* The branch of _create() that installs the 2D visualiser and the resize
\* that ends _create().
Create2D(m, cw) ==
  LET v  == [NewVis("2d") EXCEPT !.inited = TRUE, !.canvas = TRUE, !.quality = m.quality]
      m1 == [m EXCEPT !.inst = Append(@, v), !.impl = Len(m.inst) + 1,
                      !.activeType = "2d", !.fallbackDisplay = "block"]
  IN MgrResized(m1, IF m1.lastWidth # 0 THEN m1.lastWidth ELSE cw)

\* A WebGL branch whose catch leaves the manager without implementation.
CreateWebGLNoFallback(m, outcome, cw) ==
  IF outcome = "ok"
  THEN LET v  == [NewVis("webgl") EXCEPT !.inited = TRUE, !.canvas = TRUE,
                     !.renderer = TRUE, !.handler = TRUE, !.quality = m.quality]
           m1 == [m EXCEPT !.inst = Append(@, v), !.impl = Len(m.inst) + 1,
                           !.activeType = "webgl", !.fallbackDisplay = "none",
                           !.last.webgl = "ok"]
       IN MgrResized(m1, IF m1.lastWidth # 0 THEN m1.lastWidth ELSE cw)
  ELSE [m EXCEPT !.inst = Append(@, AuroraInitFailed(m.variant, outcome)),
                 !.impl = 0, !.last.webgl = "failed", !.last.threw = TRUE]

\* The WebGL branch of _create(): the try block, and the catch that sets
\* impl to null and calls _create(false).
CreateWebGL(m, outcome, cw) ==
  IF outcome = "ok"
  THEN LET v  == [NewVis("webgl") EXCEPT !.inited = TRUE, !.canvas = TRUE,
                     !.renderer = TRUE, !.handler = TRUE, !.quality = m.quality]
           m1 == [m EXCEPT !.inst = Append(@, v), !.impl = Len(m.inst) + 1,
                           !.activeType = "webgl", !.fallbackDisplay = "none",
                           !.last.webgl = "ok"]
       IN MgrResized(m1, IF m1.lastWidth # 0 THEN m1.lastWidth ELSE cw)
  ELSE Create2D([m EXCEPT !.inst = Append(@, AuroraInitFailed(m.variant, outcome)),
                          !.impl = 0, !.last.webgl = "failed"], cw)

\* The disposal of this.impl that opens _create(), _switchToFallback() and
\* dispose().
DropImpl(m) ==
  IF m.impl # 0
  THEN [m EXCEPT !.inst[m.impl] = VisDispose(@), !.impl = 0]
  ELSE m

\* _create(preferWebGL).  support is what supportsWebGL() finds when its
\* cache is empty, outcome how the WebGL init() ends, cw the container's
\* clientWidth.
Create(m, preferWebGL, support, outcome, cw) ==
  IF ~m.container THEN m
  ELSE LET m0  == DropImpl(m)
           cap == IF m0.webglCapable = "unknown" THEN support ELSE m0.webglCapable
       IN IF preferWebGL
          THEN IF cap = "yes"
               THEN CreateWebGL([m0 EXCEPT !.webglCapable = cap], outcome, cw)
               ELSE Create2D([m0 EXCEPT !.webglCapable = cap], cw)
          ELSE Create2D(m0, cw)

\* What an operation records about the state it started from.
MgrOp(m, op) ==
  [m EXCEPT !.last = [op |-> op, threw |-> FALSE, from |-> m.activeType,
                      had |-> m.impl, webgl |-> "none", ran |-> FALSE,
                      quality |-> m.quality]]

\* Room for the n visualisers a call may construct.
MgrRoom(n) == Len(mgr.inst) + n <= MaxMgrInst

\* init(container, analyser)
MgrInit(support, outcome, cw) ==
  /\ MgrRoom(2)
  /\ mgr' = IF mgr.impl # 0 THEN MgrOp(mgr, "init")
            ELSE Create([MgrOp(mgr, "init") EXCEPT !.container = TRUE],
                        TRUE, support, outcome, cw)

\* toggle()
MgrToggle(support, outcome, cw) ==
  /\ MgrRoom(IF mgr.activeType # "webgl" THEN 2 ELSE 1)
  /\ mgr' = Create(MgrOp(mgr, "toggle"), mgr.activeType # "webgl", support, outcome, cw)

\* setQuality(level)
MgrSetQuality(level) ==
  /\ level # mgr.quality
  /\ mgr' = LET m1 == [MgrOp(mgr, "setQuality") EXCEPT !.quality = level]
            IN IF m1.impl # 0 THEN [m1 EXCEPT !.inst[m1.impl].quality = level] ELSE m1

\* resize(width, height)
MgrResize(w) ==
  mgr' = MgrResized(MgrOp(mgr, "resize"), w)

\* update(freq, wave, dt): forwarded unless there is no implementation or
\* the WebGL implementation has no renderer.
MgrUpdate ==
  mgr' = [MgrOp(mgr, "update") EXCEPT
            !.last.ran = /\ mgr.impl # 0
                         /\ ~(mgr.activeType = "webgl" /\ ~mgr.inst[mgr.impl].renderer)]

\* The webglcontextlost event on the canvas of visualiser k: the listener
\* init() added calls the handler the manager registered, which is
\* _switchToFallback().
ContextLost(k, cw) ==
  /\ MgrRoom(1)
  /\ k \in 1..Len(mgr.inst)
  /\ mgr.inst[k].handler
  /\ mgr' = LET m == MgrOp(mgr, "contextLost")
            IN IF m.activeType = "2d" THEN m
               ELSE Create(DropImpl(m), FALSE, "no", "ok", cw)

\* dispose()
MgrDispose ==
  mgr' = [DropImpl(MgrOp(mgr, "dispose")) EXCEPT
            !.activeType = "none", !.fallbackDisplay = "block"]

InitManager ==
  /\ Idle2D /\ IdleBm /\ InitApp /\ IdleDrv /\ IdleGl /\ IdlePulse
  /\ IdleFirst /\ IdleNoise /\ IdlePg
  /\ \E variant \in {"aurora", "part002"}, quality \in MgrLevels :
       mgr = ConstructedMgr(variant, quality)

NextManager ==
  \/ \E support \in {"yes", "no"}, outcome \in WebGLOutcomes, cw \in MgrWidths :
       MgrInit(support, outcome, cw) /\ UNCHANGED varsNotMgr
  \/ \E support \in {"yes", "no"}, outcome \in WebGLOutcomes, cw \in MgrWidths :
       MgrToggle(support, outcome, cw) /\ UNCHANGED varsNotMgr
  \/ \E level \in MgrLevels : MgrSetQuality(level) /\ UNCHANGED varsNotMgr
  \/ \E w \in MgrWidths : MgrResize(w) /\ UNCHANGED varsNotMgr
  \/ MgrUpdate /\ UNCHANGED varsNotMgr
  \/ \E k \in 1..MaxMgrInst, cw \in MgrWidths : ContextLost(k, cw) /\ UNCHANGED varsNotMgr
  \/ MgrDispose /\ UNCHANGED varsNotMgr

SpecManager == InitManager /\ [][NextManager]_vars

(***************************************************************************)
(* The player page of src/unnamed/part_005 (lines 275 to the end): the     *)
(* track list and the selection.  A track is its id (name-size-            *)
(* lastModified).  pg.jobs lists the addFiles invocations that are         *)
(* suspended at `await extractMetadata(file, track)`: the track awaited    *)
(* and the files of the list still to be processed.  pg.shown is the       *)
(* number of rows renderTrackList() produced last, pg.meta the             *)
(* onloadedmetadata handler loadTrack() installed and that has not run     *)
(* yet.  play() is taken in one step here; its suspensions are the         *)
(* subject of the model of the other page.                                 *)
(***************************************************************************)
\* The number of addFiles invocations in one behaviour, and of those
\* suspended at the same time.
MaxPgAdds == 3

MaxPgJobs == 2

\* The files the user can drop: two audio files and one that is not audio.
AudioIds == {"a", "b"}

DroppedFiles == AudioIds \cup {"txt"}

\* The file lists of one drop or selection.
FileLists ==
  {<<f>> : f \in DroppedFiles} \cup {<<f, g>> : f \in DroppedFiles, g \in DroppedFiles}

\* STATE.tracks.some((t) => t.id === id)
HasTrack(tracks, id) == \E n \in 1..Len(tracks) : tracks[n] = id

\* The for loop of addFiles up to its next await: the files whose id is in
\* STATE.tracks are skipped (continue); what is returned starts with the
\* file whose metadata is awaited next.  The tracks other invocations
\* await are not in STATE.tracks yet.
RECURSIVE NextNewFile(_, _)
NextNewFile(tracks, files) ==
  IF files = <<>> THEN <<>>
  ELSE IF HasTrack(tracks, Head(files))
       THEN NextNewFile(tracks, Tail(files))
       ELSE files

\* loadTrack(idx, autoplay) on the page record p
PgLoadTrack(p, idx, autoplay) ==
  IF idx < 0 \/ idx >= Len(p.tracks) THEN p
  ELSE [p EXCEPT !.current = idx,
                 !.meta = IF autoplay THEN "autoplay" ELSE "plain"]

\* The end of addFiles: renderTrackList(), and the first track is loaded
\* if none is selected.
AddFilesEnd(p) ==
  LET p1 == [p EXCEPT !.shown = Len(p.tracks)]
  IN IF p1.current = -1 /\ Len(p1.tracks) > 0 THEN PgLoadTrack(p1, 0, FALSE) ELSE p1

\* What an event records about the state it started from.
PgOp(p, op) ==
  [p EXCEPT !.last = [op |-> op, from |-> p.current, count |-> Len(p.tracks)]]

\* The sequence s without its element at position n.
WithoutAt(s, n) == SubSeq(s, 1, n - 1) \o SubSeq(s, n + 1, Len(s))

\* addFiles(fileList), up to its first await or to its end
PgAddFiles(list) ==
  /\ pg.adds < MaxPgAdds
  /\ Len(pg.jobs) < MaxPgJobs
  /\ LET p     == [PgOp(pg, "addFiles") EXCEPT !.adds = @ + 1]
         files == SelectSeq(list, LAMBDA f : f \in AudioIds)
         rest  == NextNewFile(p.tracks, files)
     IN pg' = IF files = <<>> THEN p
              ELSE IF rest = <<>> THEN AddFilesEnd(p)
              ELSE [p EXCEPT !.jobs = Append(@, [pending |-> Head(rest), rest |-> Tail(rest)])]

\* extractMetadata() of invocation j resolves: the track is pushed and the
\* loop goes on to the next await or to the end of addFiles.
PgMetadataDone(j) ==
  /\ j \in 1..Len(pg.jobs)
  /\ LET job    == pg.jobs[j]
         p      == [PgOp(pg, "metadata") EXCEPT !.tracks = Append(@, job.pending)]
         rest   == NextNewFile(p.tracks, job.rest)
     IN pg' = IF rest = <<>>
              THEN AddFilesEnd([p EXCEPT !.jobs = WithoutAt(@, j)])
              ELSE [p EXCEPT !.jobs[j] = [pending |-> Head(rest), rest |-> Tail(rest)]]

\* A click on row i of the track list: loadTrack(i, true)
PgTrackClick(i) ==
  /\ i \in 0..(pg.shown - 1)
  /\ pg' = PgLoadTrack(PgOp(pg, "click"), i, TRUE)

\* A previous button that stops at the first track.
PrevIndexClamped(p) == IF p.current > 0 THEN p.current - 1 ELSE 0

\* prevIndex = STATE.current > 0 ? STATE.current - 1 : STATE.tracks.length - 1
PrevIndex(p) == IF p.current > 0 THEN p.current - 1 ELSE Len(p.tracks) - 1

\* The click handler of the previous button
PgPrevClick ==
  pg' = LET p == PgOp(pg, "prev")
        IN IF Len(p.tracks) = 0 THEN p ELSE PgLoadTrack(p, PrevIndex(p), TRUE)

\* The click handler of the next button
PgNextClick ==
  pg' = LET p == PgOp(pg, "next")
        IN IF Len(p.tracks) = 0 THEN p
           ELSE PgLoadTrack(p, (p.current + 1) % Len(p.tracks), TRUE)

\* The ended event of the audio element: the next track, or pause() after
\* the last one.
PgTrackEnded ==
  /\ pg.playing
  /\ pg' = LET p == PgOp(pg, "ended")
           IN IF p.current + 1 < Len(p.tracks)
              THEN PgLoadTrack(p, p.current + 1, TRUE)
              ELSE [p EXCEPT !.playing = FALSE]

\* The loadedmetadata event of the audio element: renderTrackList(), and
\* play() when the track was loaded with autoplay; ok tells whether
\* audioEl.play() resolves.
PgLoadedMetadata(ok) ==
  /\ pg.meta # "none"
  /\ pg' = [PgOp(pg, "loadedmetadata") EXCEPT
              !.shown = Len(pg.tracks),
              !.meta = "none",
              !.playing = IF pg.meta = "autoplay" /\ ok THEN TRUE ELSE @]

\* The click handler of the play/pause button
PgPlayPauseClick(ok) ==
  pg' = [PgOp(pg, "playPause") EXCEPT
           !.playing = IF pg.playing THEN FALSE ELSE ok]

InitPlayer ==
  /\ Idle2D /\ IdleBm /\ InitApp /\ IdleDrv /\ IdleGl /\ IdlePulse
  /\ IdleFirst /\ IdleNoise /\ IdleMgr /\ IdlePg

NextPlayer ==
  \/ \E list \in FileLists : PgAddFiles(list) /\ UNCHANGED varsNotPg
  \/ \E j \in 1..MaxPgJobs : PgMetadataDone(j) /\ UNCHANGED varsNotPg
  \/ \E i \in 0..(2 * MaxPgAdds) : PgTrackClick(i) /\ UNCHANGED varsNotPg
  \/ PgPrevClick /\ UNCHANGED varsNotPg
  \/ PgNextClick /\ UNCHANGED varsNotPg
  \/ PgTrackEnded /\ UNCHANGED varsNotPg
  \/ \E ok \in BOOLEAN : PgLoadedMetadata(ok) /\ UNCHANGED varsNotPg
  \/ \E ok \in BOOLEAN : PgPlayPauseClick(ok) /\ UNCHANGED varsNotPg

SpecPlayer == InitPlayer /\ [][NextPlayer]_vars




(***************************************************************************)
(* Properties.                                                             *)
(***************************************************************************)
\* The last call was an update that ran the feature extractor.
UpdateRan == call2d.op = "update" /\ call2d.ran

\* The targets of the frame of the last call.
LastTargets == Targets2D(call2d.freq, call2d.wave, vis2d.sampleRate)

\* The bar slots the current settings use.
UsedBars == 1..Min2(vis2d.settings.bars, Len(vis2d.barValues))

\* C1: as long as every update was given non-empty byte arrays, every
\* smoothed field, every per-band level and every target of the last frame
\* lies in [0,1] and is not NaN.
C1_OutputsInUnit ==
  ~sawEmpty2d =>
    /\ \A f \in Fields : InUnit(vis2d.audioState[f])
    /\ \A k \in UsedBars : InUnit(vis2d.barValues[k])
    /\ UpdateRan => \A f \in Fields : InUnit(LastTargets[f])

\* C2: the band map has bandCount entries, each with
\* 0 <= binStart <= binCount - 1 and binEnd <= binCount, for every positive
\* binCount, bandCount and sampleRate.
C2_EntriesInRange ==
  bmOut # Null =>
    /\ Len(bmOut) = bmArgs.bandCount
    /\ \A k \in 1..Len(bmOut) :
         /\ 0 <= bmOut[k][1]
         /\ bmOut[k][1] <= bmArgs.binCount - 1
         /\ bmOut[k][2] <= bmArgs.binCount

\* C3: every band-map entry has binEnd >= binStart + 1, also when there are
\* more bands than bins.
C3_WidthAtLeastOne ==
  bmOut # Null => \A k \in 1..Len(bmOut) : bmOut[k][2] >= bmOut[k][1] + 1

\* A map with more bands than bins in which the width clamp acted.
C3_Witness ==
  /\ bmOut # Null
  /\ bmArgs.bandCount > bmArgs.binCount
  /\ \E k \in 1..Len(bmOut) :
       BandLimit(bmArgs.binCount, bmArgs.bandCount, bmArgs.sampleRate, k - 1)
         <= BandStart(bmArgs.binCount, bmArgs.bandCount, bmArgs.sampleRate, k - 1)

\* C4: the band map an update used is the map of the frame's length, the
\* current band count and the current sample rate.
C4_MapMatchesFrame ==
  UpdateRan =>
    vis2d.bandMap = MakeLogBandMap(Len(call2d.freq), vis2d.settings.bars,
                                   vis2d.sampleRate)

\* C5: every band interval an update summed over lies inside
\* [0, freq.length) of its (non-empty) frame.
C5_BandsInsideFrame ==
  (UpdateRan /\ Len(call2d.freq) > 0) =>
    \A k \in 1..Len(vis2d.bandMap) :
      /\ 0 <= vis2d.bandMap[k][1]
      /\ vis2d.bandMap[k][2] <= Len(call2d.freq)

\* An update that ran directly after an update that ran, with the same frame.
SameFrameAgain ==
  /\ UpdateRan
  /\ UpdateRan'
  /\ frames2d' = frames2d + 1
  /\ call2d'.freq = call2d.freq
  /\ call2d'.wave = call2d.wave

\* a !== b of two numbers: NaN differs from everything.
RDiffers(a, b) == IsNaN(a) \/ IsNaN(b) \/ a # b

\* C6: when an update repeats the frame of the update before it, every
\* smoothed field that differs from its target moves strictly closer to it
\* and does not cross it.
C6_SmoothingApproaches ==
  [][SameFrameAgain =>
       \A f \in Fields :
         LET t == LastTargets[f]
             v == vis2d.audioState[f]
             w == vis2d'.audioState[f]
         IN RDiffers(v, t) =>
              /\ RLess(RAbs(RSub(w, t)), RAbs(RSub(v, t)))
              /\ RLeq(Zero, RMul(RSub(v, t), RSub(w, t)))]_vars

\* An update that ran on a silent frame: all-zero frequencies, all-128 waveform.
SilentUpdate ==
  /\ frames2d' = frames2d + 1
  /\ Len(call2d'.freq) > 0
  /\ Len(call2d'.wave) > 0
  /\ \A i \in 1..Len(call2d'.freq) : call2d'.freq[i] = 0
  /\ \A i \in 1..Len(call2d'.wave) : call2d'.wave[i] = 128

\* C7: a silent update, from any reachable state, leaves every smoothed
\* field not NaN, non-negative and at most (1 - smooth) times its value
\* before (so 100 of them leave at most (1 - smooth)^100 times it).
C7_SilenceDecays ==
  [][SilentUpdate =>
       \A f \in Fields :
         /\ ~IsNaN(vis2d'.audioState[f])
         /\ RLeq(Zero, vis2d'.audioState[f])
         /\ RLeq(vis2d'.audioState[f],
                 RMul(vis2d.audioState[f], RSub(One, Smooth2D)))]_vars

\* C8: an update given a zero-length frequency or waveform array takes the
\* aggregates of the empty array as 0 and leaves no smoothed field and no
\* band level NaN.
C8_EmptyFramesGiveZero ==
  (UpdateRan /\ (Len(call2d.freq) = 0 \/ Len(call2d.wave) = 0)) =>
    /\ Len(call2d.wave) = 0 => LastTargets.energy = Zero
    /\ Len(call2d.freq) = 0 =>
         /\ \A f \in Fields \ {"energy"} : LastTargets[f] = Zero
         /\ \A k \in UsedBars : vis2d.barValues[k] = Zero
    /\ \A f \in Fields : ~IsNaN(vis2d.audioState[f])
    /\ \A k \in UsedBars : ~IsNaN(vis2d.barValues[k])

\* C9: after every update that ran, the band map has settings.bars entries,
\* the bar array has at least that many slots and the seed array has
\* settings.sparkCount elements; a setQuality with an unknown level changes
\* no field.
C9_PopulationConsistent ==
  [][/\ UpdateRan' =>
          /\ Len(vis2d'.bandMap) = vis2d'.settings.bars
          /\ Len(vis2d'.barValues) >= vis2d'.settings.bars
          /\ Len(vis2d'.sparkSeeds) = vis2d'.settings.sparkCount
     /\ (call2d'.op = "setQuality" /\ call2d'.level \notin Levels) =>
          vis2d' = vis2d]_vars

\* C10: after setQuality with a level of the presets, the bar array has the
\* preset's bar count of zeros and the seed array is exactly the preset's
\* sparkCount values drawn in that call.
C10_QualityResetsArrays ==
  (call2d.op = "setQuality" /\ call2d.level \in Levels) =>
    /\ vis2d.settings = Presets2D(call2d.level)
    /\ vis2d.barValues = Zeros(Presets2D(call2d.level).bars)
    /\ Len(call2d.drawn) = Presets2D(call2d.level).sparkCount
    /\ vis2d.sparkSeeds = call2d.drawn

\* A smaller preset chosen after frames that raised the levels and moved
\* the seeds.
C10_Witness ==
  /\ call2d.op = "setQuality"
  /\ call2d.level = "low"
  /\ frames2d = MaxFrames
  /\ RLess(Zero, vis2d.audioState.bass)
  /\ RLess(Zero, vis2d.audioState.highs)

\* C11: at most one animation-frame callback is pending at any time.
C11_OneCallbackPending == Cardinality(app.pending) <= 1

\* C18: the peak decay of the per-frame peak-hold law is the same under
\* every preset and is left unchanged by the quality selector's handler.
C18_QualityKeepsLaws == app.peakDecay = Rat(1, 100)

\* C12: an update call made after dispose() changes no field of the object.
C12_UpdateAfterDisposeIsNoOp ==
  [][(call2d.op = "dispose" /\ call2d'.op = "update") => vis2d' = vis2d]_vars

\* C13: every dt handed to the visualiser's update is at least 0.001.
C13_DtAtLeastEpsilon == UpdateRan => RLeq(Rat(1, 1000), call2d.dt)


\* C14: in AuroraOrbitVisualizer.update, once peakPulse is 1.0 and the trigger
\* does not fire again, every decay step leaves peakPulse no larger than it
\* was and never negative, and peakPulse is exactly 0 as soon as the dt
\* handed to the decay step since the trigger adds up to 1 / 1.5 seconds.
C14_PulseDecays ==
  [][/\ RLeq(pulse'.peakPulse, pulse.peakPulse)
     /\ RLeq(Zero, pulse'.peakPulse)
     /\ (RLeq(Rat(2, 3), pulse'.elapsed) => pulse'.peakPulse = Zero)]_vars

\* The pulse has decayed to 0 over several steps that add up to 2/3 s or more.
C14_Witness ==
  /\ pulse.steps >= 3
  /\ RLeq(Rat(2, 3), pulse.elapsed)
  /\ RLess(pulse.elapsed, One)
  /\ pulse.peakPulse = Zero

\* C15: the accumulating phase hueShift of the WebGL visualiser is wrapped on
\* every update, so it stays in a fixed range (here: below 7, which is more
\* than 2 * pi) after any number of update calls.
C15_PhasesStayBounded ==
  IsNaN(gl.hueShift) \/ (RLeq(Zero, gl.hueShift) /\ RLess(gl.hueShift, Num(7)))


\* In [0, 1) and not NaN.
InHalfOpenUnit(x) == RLeq(Zero, x) /\ RLess(x, One)

\* C16: after any sequence of update calls with dt >= 0 and setQuality calls,
\* lastHue and every element of the seed array of AuroraOrbit2DVisualizer lie
\* in [0, 1).
C16_PhasesInUnit ==
  /\ InHalfOpenUnit(vis2d.lastHue)
  /\ \A k \in 1..Len(vis2d.sparkSeeds) : InHalfOpenUnit(vis2d.sparkSeeds[k])

\* C17: an update call that draws advances lastHue by exactly
\* energy * 0.03 * dt (mod 1), whatever the number of bars.
C17_HueOneStepPerUpdate ==
  [][(call2d'.op = "update" /\ call2d'.ran /\ ~IsNaN(vis2d'.audioState.energy))
       => vis2d'.lastHue =
            RMod1(RAdd(vis2d.lastHue,
                       RMul(RMul(vis2d'.audioState.energy, Rat(3, 100)), call2d'.dt)))]_vars


\* C19: for every pair of consecutive bands i, i+1 of a band map,
\* binStart[i] <= binStart[i+1] <= binEnd[i]: the starts never decrease and
\* no bin is left uncovered between two bands.
C19_StartsAscendWithoutGaps ==
  bmOut # Null =>
    \A k \in 1..(Len(bmOut) - 1) :
      /\ bmOut[k][1] <= bmOut[k + 1][1]
      /\ bmOut[k + 1][1] <= bmOut[k][2]


\* C20: for binCount = 1024, bandCount = 48 and sampleRate = 44100, band 0
\* of the band map starts at bin 0.
C20_ScenarioFirstBandAtZero ==
  (firstStart # -1 /\ bmArgs = [binCount |-> 1024, bandCount |-> 48, sampleRate |-> 44100])
    => firstStart = 0


C30_ZeroSeedZeroTable ==
  /\ \A a \in 1..Len(noise.inst) :
        /\ Len(noise.inst[a].p) = 2 * PermHalf
        /\ noise.inst[a].seed = 0 => \A i \in 1..(2 * PermHalf) : noise.inst[a].p[i] = 0
        /\ \A i \in 1..PermHalf : noise.inst[a].p[i] = noise.inst[a].p[i + PermHalf]
  /\ noise.reads \subseteq 0..(2 * PermHalf - 1)

\* An instance with seed 0 and one with another seed exist, and the last
\* call read the second half of a table that is not all zero.
C30_Witness ==
  /\ \E a, b \in 1..Len(noise.inst) :
        /\ noise.inst[a].seed = 0 /\ noise.inst[b].seed # 0
        /\ \E i \in 1..PermHalf : noise.inst[b].p[i] # 0
  /\ \E r \in noise.reads : r > PermHalf + 1

\* The last call asked _create() for the WebGL visualiser.
PreferredWebGL ==
  /\ mgr.container
  /\ \/ mgr.last.op = "init" /\ mgr.last.had = 0
     \/ mgr.last.op = "toggle" /\ mgr.last.from # "webgl"

\* this.impl is an AuroraOrbit2DVisualizer and activeType is '2d'.
Installed2D ==
  /\ mgr.impl # 0
  /\ mgr.inst[mgr.impl].kind = "2d" /\ mgr.inst[mgr.impl].inited
  /\ ~mgr.inst[mgr.impl].disposed
  /\ mgr.activeType = "2d"

\* C23: a creation that prefers WebGL ends with the 2D visualiser installed
\* and without an error for the caller when WebGL is unsupported or the
\* WebGL init throws; a context-lost notification while activeType is
\* 'webgl' ends with the 2D visualiser installed, and one while activeType
\* is '2d' changes nothing.
C23_FallsBackTo2D ==
  /\ (PreferredWebGL /\ (mgr.webglCapable = "no" \/ mgr.last.webgl = "failed"))
       => (Installed2D /\ ~mgr.last.threw)
  /\ (mgr.last.op = "contextLost" /\ mgr.last.from = "webgl") => Installed2D
  /\ (mgr.last.op = "contextLost" /\ mgr.last.from = "2d")
       => (Installed2D /\ mgr.impl = mgr.last.had)

\* A WebGL init has thrown, and later a context-lost notification arrived
\* while activeType was 'webgl'.
C23_Witness ==
  /\ mgr.last.op = "contextLost" /\ mgr.last.from = "webgl"
  /\ \E k \in 1..Len(mgr.inst) : mgr.inst[k].kind = "webgl" /\ ~mgr.inst[k].inited
  /\ mgr.activeType = "2d"

\* C24: every visualiser other than this.impl has been disposed, or never
\* held a canvas or a renderer, so that at most one is live.
C24_OnlyImplIsLive ==
  \A k \in 1..Len(mgr.inst) :
    k # mgr.impl =>
      \/ mgr.inst[k].disposed
      \/ ~(mgr.inst[k].inited \/ mgr.inst[k].canvas \/ mgr.inst[k].renderer)

\* C27: toggle() on a manager that has an implementation ends with '2d'
\* when it started from 'webgl', and with 'webgl' when it started from '2d'
\* and the WebGL creation succeeded, with '2d' otherwise; the manager then
\* has a new implementation that was given the manager's quality.
C27_ToggleSwitches ==
  (mgr.last.op = "toggle" /\ mgr.last.had # 0) =>
    /\ mgr.last.from = "webgl" => mgr.activeType = "2d"
    /\ mgr.last.from = "2d" =>
         mgr.activeType = (IF mgr.last.webgl = "ok" THEN "webgl" ELSE "2d")
    /\ mgr.impl # 0 /\ mgr.impl # mgr.last.had
    /\ mgr.inst[mgr.impl].inited /\ ~mgr.inst[mgr.impl].disposed
    /\ mgr.inst[mgr.impl].kind = mgr.activeType
    /\ mgr.inst[mgr.impl].quality = mgr.quality
    /\ mgr.quality = mgr.last.quality

\* toggle() went from '2d' to 'webgl' after the quality had been changed
\* since an earlier visualiser was replaced, and a toggle that failed to
\* create the WebGL visualiser came before.
C27_Witness ==
  /\ mgr.last.op = "toggle" /\ mgr.last.from = "2d" /\ mgr.activeType = "webgl"
  /\ \E k \in 1..Len(mgr.inst) : mgr.inst[k].quality \notin {"none", mgr.quality}

\* C25: STATE.tracks never holds two tracks with the same id.
C25_NoDuplicateTracks ==
  \A a, b \in 1..Len(pg.tracks) : a # b => pg.tracks[a] # pg.tracks[b]

\* The wrap of the previous and next buttons: previous at the first track
\* (or with nothing selected) selects the last, next at the last track
\* selects the first.
PrevNextWrap ==
  /\ (pg.last.op = "prev" /\ pg.last.count > 0 /\ pg.last.from <= 0)
       => pg.current = pg.last.count - 1
  /\ (pg.last.op = "next" /\ pg.last.count > 0 /\ pg.last.from = pg.last.count - 1)
       => pg.current = 0

\* C29 as stated: STATE.current is -1 only while the track list is empty,
\* and otherwise an index of the list; previous and next wrap.
C29_CurrentIsValid ==
  /\ pg.current = -1 => Len(pg.tracks) = 0
  /\ pg.current # -1 => (0 <= pg.current /\ pg.current < Len(pg.tracks))
  /\ PrevNextWrap

\* C29 amended: STATE.current is -1 or an index of the list; while no
\* addFiles invocation awaits metadata it is -1 exactly when the list is
\* empty; previous and next wrap.
C29_CurrentIsValidWhenSettled ==
  /\ pg.current = -1 \/ (0 <= pg.current /\ pg.current < Len(pg.tracks))
  /\ pg.jobs = <<>> => (pg.current = -1 <=> Len(pg.tracks) = 0)
  /\ PrevNextWrap

\* Previous was clicked at the first of at least two tracks while an
\* addFiles invocation awaited metadata.
C29_Witness ==
  /\ pg.last.op = "prev" /\ pg.last.from = 0 /\ pg.last.count >= 2
  /\ pg.current = pg.last.count - 1
  /\ pg.jobs # <<>>

\* C26: no step runs loop() and its drawFrame while STATE.playing is false
\* before and after the step, that is between a pause() and the next play()
\* that succeeds.
C26_NoFramesWhilePaused ==
  [][~(/\ ~app.playing /\ ~app'.playing
       /\ app.audioCtx
       /\ app'.nextId = app.nextId + 1)]_vars

\* C28: the bass pulse trigger is false on every update, and peakPulse is 0
\* in every state.
C28_PulseNeverFires == ~glCall.triggered /\ gl.peakPulse = Zero

\* An update ran that left the smoothed bass above the trigger's floor 0.4.
C28_Witness ==
  /\ glCall.op = "update" /\ glCall.ran
  /\ RLess(Rat(4, 10), gl.audioState.bass)
  /\ RLess(gl.audioState.bass, RAdd(gl.lastBass, Rat(22, 100)))

=============================================================================
